---------------------------- MODULE Spec2Model ----------------------------
(***************************************************************************)
(* The recursive forecaster of realtime-load-predictions.                  *)
(*                                                                         *)
(*   ml_engine/prediction/rf_predict.py      load_model, make_predictions, *)
(*       create_future_timepoints, predict_future_values, main             *)
(*   ml_engine/v2/prediction/future_predict.py                             *)
(*       create_future_timepoints, predict_future_values, main             *)
(*   ml_engine/v2/prediction/predict.py      predict_with_xgb              *)
(*                                                                         *)
(* One behaviour is one execution of one of the scripts (or one direct     *)
(* call of a function of them); `entry' says which.                        *)
(*                                                                         *)
(* Numbers.  A float is a fixed-point integer counting 1/Scale; a product  *)
(* with a decimal constant k/10 is Tenths(x, k).  A timestamp is an        *)
(* integer number of hours since the epoch; a Timedelta is an integer      *)
(* number of hours, and the mean of Timedeltas is truncated to that        *)
(* resolution as pandas truncates it to its own.                           *)
(***************************************************************************)
EXTENDS Integers, Sequences, FiniteSets, TLC

VARIABLES
    entry,            \* what runs: "nothing", "call", "main", "v2main", "xgb",
                      \* "make_predictions", "engineer"
    pc,               \* position of the program
    historical_df,    \* the history frame handed to the forecaster
    future_periods,   \* the horizon
    model,            \* the loaded model handle, or None
    scaler,           \* the loaded scaler handle, or None
    expected_features,\* scaler.feature_names_in_ (<<>>: the attribute is absent)
    working_df,       \* predict_future_values: sorted copy of the history
    future_df,        \* predict_future_values: the future timestamps
    stats,            \* predict_future_values: avg_diff, std_diff, pattern tables
    all_predictions,  \* the recorded outputs (future_predictions in v2)
    X,                \* the matrix last handed to scaler.transform
    calls,            \* scaler.transform / model.predict calls of the forecaster
    ret,              \* what predict_future_values returned
    main_state,       \* main: targets left, files written
    recon,            \* predict_with_xgb: feature_cols
    engineered,       \* a feature engineer called by itself: its frame, its result
    threads           \* v2 future_predict used by several threads: each one's position

vars == << entry, pc, historical_df, future_periods, model, scaler,
           expected_features, working_df, future_df, stats, all_predictions,
           X, calls, ret, main_state, recon,
          engineered, threads >>

-----------------------------------------------------------------------------
(* Bounds of the model *)

\* longest horizon a run is given
MaxHorizon == 2
\* the loads a thread calls
MaxLoads == 2
\* rows a long history has beyond the 24 rows the lag loop reads
ExtraRows == 1

(* Constants of the program *)

\* rf_predict.py:405  for lag in range(1, 25)
MaxLag == 24
\* rf_predict.py:348  if len(working_df) > 24
PatternRows == 24
\* rf_predict.py:362  if len(working_df) >= 24*7
WeeklyRows == 24 * 7
\* rf_predict.py:523  min() * 0.8
ClampLow == 8
\* rf_predict.py:524  max() * 1.2
ClampHigh == 12
\* rf_predict.py:515  i * avg_diff * 0.3
TrendTenths == 3
\* rf_predict.py:519  std_diff * 0.7
NoiseTenths == 7
\* rf_predict.py:506  (daily_factor - 1) * 0.4
DailyTenths == 4
\* rf_predict.py:512  (weekly_factor - 1) * 0.3
WeeklyTenths == 3

None == "None"
TimeCol == "time_dt"
\* the target column of a frame (target_var)
Target == "value"

-----------------------------------------------------------------------------
(* Fixed-point arithmetic *)

Scale == 10 * 10 * 10

\* x * (k/10)
Tenths(x, k) == (x * k) \div 10

\* x * y, both fixed-point
Mul(x, y) == (x * y) \div Scale

\* x / y, both fixed-point, y # 0
Div(x, y) == (x * Scale) \div y

Max2(a, b) == IF a >= b THEN a ELSE b
Min2(a, b) == IF a <= b THEN a ELSE b

RECURSIVE SumSeq(_)
SumSeq(s) ==
    IF s = <<>> THEN 0
    ELSE IF Len(s) = 1 THEN s[1]
    ELSE LET h == Len(s) \div 2
         IN  SumSeq(SubSeq(s, 1, h)) + SumSeq(SubSeq(s, h + 1, Len(s)))

SeqMin(s) == CHOOSE m \in {s[i] : i \in DOMAIN s} : \A i \in DOMAIN s : m <= s[i]
SeqMax(s) == CHOOSE m \in {s[i] : i \in DOMAIN s} : \A i \in DOMAIN s : m >= s[i]

\* Series.diff().dropna()
Diffs(s) == [i \in 1..(Len(s) - 1) |-> s[i + 1] - s[i]]


-----------------------------------------------------------------------------
(* Frames.  A history frame has the target column and, when `time' says so,  *)
(* the time column; `feats' says whether the caller ran create_time_features *)
(* on it (hour_of_day, day_of_week, ...); `extra' is the cell every row has  *)
(* in one further covariate column, or None when the frame has no such       *)
(* column.  A cell is a number or a non-numeric value.                       *)

Num(n) == [kind |-> "num", num |-> n]
\* a missing value
NaN == [kind |-> "nan", num |-> 0]
\* a string that spells the number n
NumStr(n) == [kind |-> "numstr", num |-> n]
\* a string that spells no number
BadStr == [kind |-> "str", num |-> 0]
\* a datetime, n hours after the epoch
DateTime(n) == [kind |-> "datetime", num |-> n]
\* the content of a column on which the conversion to a number raises, as
\* pd.to_numeric does on X[col] when the frame has the label twice and
\* X[col] is a frame
Unconvertible == [kind |-> "object", num |-> 0]
\* no cell: the frame has no such column
Absent == [kind |-> "absent", num |-> 0]

\* first timestamp of a generated history: 1970-01-05 (a Monday) 00:00
T0 == 4 * 24
\* the values of a generated history: around Level, Amp apart, Slope per row
Level == Scale
Amp == Scale
Slope == Scale \div 10

\* a history's timestamps: regular (gap 1 hour), ending with a longer gap,
\* or all equal
HistTime(i, n, p) ==
    CASE p.times = "regular" -> T0 + (i - 1)
      [] p.times = "irregular" -> T0 + (i - 1) + (IF i = n /\ n > 1 THEN n - 1 ELSE 0)
      [] p.times = "equal" -> T0

HistValue(i, p) ==
    CASE p.shape = "flat" -> Level
      [] p.shape = "osc"  -> Level + (i % 2) * Amp
      [] p.shape = "ramp" -> Level + (i - 1) * Slope
      [] p.shape = "negative" -> 0 - Level - (i % 2) * Slope

\* rows in time order, or in the reverse of it
HistRows(n, p) ==
    [i \in 1..n |->
        LET k == IF p.rev THEN n + 1 - i ELSE i
        IN  [time_dt |-> HistTime(k, n, p), value |-> HistValue(k, p)]]

HistShapes ==
    {[times |-> "regular", rev |-> FALSE, shape |-> "osc"],
     [times |-> "regular", rev |-> TRUE, shape |-> "ramp"],
     [times |-> "irregular", rev |-> FALSE, shape |-> "flat"],
     [times |-> "irregular", rev |-> TRUE, shape |-> "osc"],
     [times |-> "equal", rev |-> FALSE, shape |-> "ramp"],
     [times |-> "regular", rev |-> FALSE, shape |-> "negative"]}

\* lengths around the thresholds of the code: len <= 1, the 24 rows the lag
\* loop reads, len > 24
HistLens == {0, 1, 2, MaxLag - 1, MaxLag} \cup (MaxLag + 1)..(MaxLag + ExtraRows)

Frame(t, f, e, rows) == [time |-> t, feats |-> f, extra |-> e, rows |-> rows]

(* DataFrame.sort_values(time_col).reset_index(drop=True): insertion sort, *)
(* rows of equal time keep their order.                                    *)
RECURSIVE Insert(_, _)
Insert(r, s) ==
    IF s = <<>> THEN <<r>>
    ELSE IF r.time_dt < Head(s).time_dt THEN <<r>> \o s
    ELSE <<Head(s)>> \o Insert(r, Tail(s))

RECURSIVE InsertAll(_)
InsertAll(rows) ==
    IF rows = <<>> THEN <<>>
    ELSE LET n == Len(rows)
         IN  Insert(rows[n], InsertAll(SubSeq(rows, 1, n - 1)))

\* the frame left in the order it came in
KeepOrder(rows) == rows

\* a frame already in time order comes back as it is
SortByTime(rows) ==
    IF \A k \in 1..(Len(rows) - 1) : rows[k].time_dt <= rows[k + 1].time_dt
    THEN rows
    ELSE InsertAll(rows)

Times(rows) == [i \in DOMAIN rows |-> rows[i].time_dt]
Values(rows) == [i \in DOMAIN rows |-> rows[i].value]

(* Calendar features of create_time_features *)
HourOfDay(t) == t % 24
\* Monday = 0; the epoch was a Thursday
DayOfWeek(t) == ((t \div 24) + 3) % 7

-----------------------------------------------------------------------------
(* Statistics *)

\* integer division that truncates toward zero, b > 0
TruncDiv(a, b) == IF a >= 0 THEN a \div b ELSE -((-a) \div b)

\* Series.mean() of a non-empty sequence
Mean(s) == SumSeq(s) \div Len(s)

RECURSIVE IsqrtIter(_, _)
IsqrtIter(n, x) ==
    LET y == (x + n \div x) \div 2
    IN  IF y >= x THEN x ELSE IsqrtIter(n, y)

Isqrt(n) == IF n <= 0 THEN 0 ELSE IsqrtIter(n, n)

\* Series.std() (ddof = 1) of a sequence of at least two values
Std(s) ==
    LET m == Mean(s)
        sq == [i \in DOMAIN s |-> (s[i] - m) * (s[i] - m)]
    IN  Isqrt(SumSeq(sq) \div (Len(s) - 1))

(* working_df[target].groupby(working_df[key]).mean(), divided by its own *)
(* mean: a function from the keys present to a factor around 1 (= Scale). *)
PatternNorm(rows, by) ==
    LET Key(t) == IF by = "hour_of_day" THEN HourOfDay(t) ELSE DayOfWeek(t)
        keys == {Key(rows[i].time_dt) : i \in DOMAIN rows}
        sel(k) == SelectSeq(rows, LAMBDA r : Key(r.time_dt) = k)
        pattern == [k \in keys |-> Mean(Values(sel(k)))]
        RECURSIVE SumOver(_)
        SumOver(ks) ==
            IF ks = {} THEN 0
            ELSE LET k == CHOOSE k \in ks : TRUE
                 IN  pattern[k] + SumOver(ks \ {k})
        overall == SumOver(keys) \div Cardinality(keys)
    IN  [k \in keys |-> Div(pattern[k], overall)]

\* Series.get(key, 1)
Get(table, key) == IF key \in DOMAIN table THEN table[key] ELSE Scale

-----------------------------------------------------------------------------
(* rf_predict.create_future_timepoints, also v2 future_predict's: None    *)
(* (ok = FALSE), or the future timestamps.                                *)

AvgInterval(rows) == TruncDiv(SumSeq(Diffs(Times(rows))), Len(rows) - 1)

\* a range one too long: range(future_periods + 1)
create_future_timepoints_one_more(df, periods) ==
    IF ~df.time \/ Len(df.rows) <= 1 THEN [ok |-> FALSE, times |-> <<>>]
    ELSE LET avg_interval == AvgInterval(df.rows)
             last_time == SeqMax(Times(df.rows))
         IN  [ok |-> TRUE,
              times |-> [i \in 1..(periods + 1) |-> last_time + i * avg_interval]]

\* the guard written len(df) < 1: one row is let through
create_future_timepoints_one_row(df, periods) ==
    IF ~df.time \/ Len(df.rows) < 1 THEN [ok |-> FALSE, times |-> <<>>]
    ELSE LET avg_interval == IF Len(df.rows) = 1 THEN 0 ELSE AvgInterval(df.rows)
             last_time == SeqMax(Times(df.rows))
         IN  [ok |-> TRUE,
              times |-> [i \in 1..periods |-> last_time + i * avg_interval]]

create_future_timepoints(df, periods) ==
    IF ~df.time \/ Len(df.rows) <= 1 THEN [ok |-> FALSE, times |-> <<>>]
    ELSE LET avg_interval == AvgInterval(df.rows)
             last_time == SeqMax(Times(df.rows))
         IN  [ok |-> TRUE,
              times |-> [i \in 1..periods |-> last_time + i * avg_interval]]

-----------------------------------------------------------------------------
(* rf_predict.predict_future_values: the analysis before the loop *)

\* the deviation used when the history is too short to measure one: 0.01
DefaultStd == Scale \div 100

\* the analysis reads working_df['hour_of_day']: a KeyError without it
AnalysisRaises(df) == Len(df.rows) > PatternRows /\ ~df.feats

\* daily_pattern_norm = None
NoPattern == [exists |-> FALSE, table |-> <<>>]

\* the analysis made from 24 rows on
PatternStatsFrom24(rows) ==
    IF Len(rows) >= PatternRows
    THEN [avg_diff |-> Mean(Diffs(Values(rows))),
          std_diff |-> Std(Diffs(Values(rows))),
          daily    |-> [exists |-> TRUE, table |-> PatternNorm(rows, "hour_of_day")],
          weekly   |-> IF Len(rows) >= WeeklyRows
                       THEN [exists |-> TRUE, table |-> PatternNorm(rows, "day_of_week")]
                       ELSE NoPattern]
    ELSE [avg_diff |-> 0, std_diff |-> DefaultStd,
          daily |-> NoPattern, weekly |-> NoPattern]

PatternStats(rows) ==
    IF Len(rows) > PatternRows
    THEN [avg_diff |-> Mean(Diffs(Values(rows))),
          std_diff |-> Std(Diffs(Values(rows))),
          daily    |-> IF Len(rows) >= PatternRows
                       THEN [exists |-> TRUE, table |-> PatternNorm(rows, "hour_of_day")]
                       ELSE NoPattern,
          weekly   |-> IF Len(rows) >= WeeklyRows
                       THEN [exists |-> TRUE, table |-> PatternNorm(rows, "day_of_week")]
                       ELSE NoPattern]
    ELSE [avg_diff |-> 0, std_diff |-> DefaultStd,
          daily |-> NoPattern, weekly |-> NoPattern]

-----------------------------------------------------------------------------
(* rf_predict.predict_future_values: one iteration of the loop.            *)
(* i is the 0-based index of the iteration, preds the predictions recorded *)
(* so far (Len(preds) = i), rows the sorted history.                       *)

\* the lag and rolling columns the model follows
Lag1 == "value_lag_1"
RollMean3 == "value_rolling_mean_3"

\* the lag loop reads working_df.iloc[i - lag] for every lag > len(preds):
\* an IndexError when the history has fewer than lag - i rows
LagRaises(i, rows) == \E lag \in 1..MaxLag : lag > i /\ lag - i > Len(rows)

\* every lag built from the last historical value
LagLastHistorical(lag, preds, rows) == rows[Len(rows)].value

\* the value lag_col is built from, before its noise
LagBase(lag, preds, rows) ==
    LET i == Len(preds)
    IN  IF lag > i
        THEN LET idx == IF i - lag < 0 THEN i - lag ELSE 0
             IN  IF idx < 0 THEN rows[Len(rows) + 1 + idx].value ELSE preds[1]
        ELSE preds[i + 1 - lag]

\* values_to_avg of a rolling window
RollValues(window, preds, rows) ==
    LET i == Len(preds)
        n == Len(rows)
    IN  [j1 \in 1..window |->
            LET j == j1 - 1
                idx == i - j - 1
            IN  IF j < i THEN preds[i - j]
                ELSE IF idx < 0 /\ -idx < n THEN rows[n + 1 + idx].value
                ELSE IF i > 0 THEN preds[1] ELSE rows[n].value]

\* draws of a standard normal variable, in whole deviations
Z == {0 - 1, 0, 1}

\* the draws that matter to a matrix: a column it lacks gets no noise
DrawsFor(name, expected) ==
    IF expected = <<>> \/ \E k \in DOMAIN expected : expected[k] = name
    THEN Z ELSE {0}

\* np.random.normal(0, sigma * k/10) with the draw z
Noise(z, sigma, k) == z * Tenths(sigma, k)

(* The columns of a frame the model follows, in the frame's order: the     *)
(* time column and the calendar features when the frame has a time column, *)
(* the target, the covariate, one lag and one rolling column.              *)
FrameColumns(df) ==
    (IF df.time THEN <<TimeCol>> ELSE <<>>) \o <<Target>>
        \o (IF df.extra.kind # "absent" THEN <<"extra">> ELSE <<>>)
        \o (IF df.time THEN <<"hour_of_day", "day_of_week">> ELSE <<>>)
        \o <<Lag1, RollMean3>>

SeqToSet(s) == {s[k] : k \in DOMAIN s}

(* The cell of column `name' of future_data at the iteration that follows  *)
(* preds, for the timestamp t; zl and zr are the noise draws of the lag    *)
(* and of the rolling column (rf_predict.py:398-454).                      *)
FutureCell(name, t, preds, df, rows, st, zl, zr) ==
    CASE name = TimeCol -> DateTime(t)
      [] name = Target ->
            Num(IF preds = <<>> THEN rows[Len(rows)].value ELSE preds[Len(preds)])
      [] name = "extra" -> df.extra
      [] name = "hour_of_day" -> Num(HourOfDay(t) * Scale)
      [] name = "day_of_week" -> Num(DayOfWeek(t) * Scale)
      [] name = Lag1 -> Num(LagBase(1, preds, rows) + Noise(zl, st.std_diff, 3))
      [] name = RollMean3 ->
            Num(Mean(RollValues(3, preds, rows)) + Noise(zr, st.std_diff, 2))
      [] OTHER -> Absent

(* The cell of column `name' in row r of the frame make_predictions builds *)
(* from df: create_time_features, create_lag_features (shift) and          *)
(* create_rolling_features (min_periods = 1) of rf_predict.py:207-291.     *)
ExistingCell(name, r, df) ==
    LET rows == df.rows
    IN  CASE name = TimeCol /\ df.time -> DateTime(rows[r].time_dt)
          [] name = Target -> Num(rows[r].value)
          [] name = "extra" -> df.extra
          [] name = "hour_of_day" /\ df.time -> Num(HourOfDay(rows[r].time_dt) * Scale)
          [] name = "day_of_week" /\ df.time -> Num(DayOfWeek(rows[r].time_dt) * Scale)
          [] name = Lag1 -> IF r = 1 THEN NaN ELSE Num(rows[r - 1].value)
          [] name = RollMean3 ->
                Num(Mean(SubSeq(Values(rows), Max2(1, r - 2), r)))
          [] OTHER -> Absent

(* A matrix is a sequence of columns [name, cells], one cell per row.      *)

(* The conversion of the non-numeric columns (rf_predict.py:470-493 and    *)
(* 111-140): a datetime column becomes seconds, another one goes through   *)
(* pd.to_numeric(errors='coerce') and fillna(0), and a column whose        *)
(* conversion raises is dropped.                                           *)
NonNumeric(cell) == cell.kind \in {"numstr", "str", "datetime", "object"}

NonNumericColumn(col) == \E k \in DOMAIN col.cells : NonNumeric(col.cells[k])

\* the conversion raises: the column is dropped
ConvertRaises(col) == \E k \in DOMAIN col.cells : col.cells[k].kind = "object"

\* seconds in one unit of time of the model
SecondsPerHour == 60 * 60

ToNumeric(cell) ==
    CASE cell.kind = "datetime" -> Num(cell.num * SecondsPerHour * Scale)
      [] cell.kind = "numstr" -> Num(cell.num)
      [] cell.kind = "str" -> Num(0)
      [] cell.kind = "nan" -> Num(0)
      [] OTHER -> cell

ConvertColumns(cols) ==
    LET kept == SelectSeq(cols, LAMBDA c : ~(NonNumericColumn(c) /\ ConvertRaises(c)))
    IN  [k \in DOMAIN kept |->
            IF NonNumericColumn(kept[k])
            THEN [name |-> kept[k].name,
                  cells |-> [r \in DOMAIN kept[k].cells |-> ToNumeric(kept[k].cells[r])]]
            ELSE kept[k]]

\* the missing values left in the matrix
KeepNa(cols) == cols

\* DataFrame.fillna(0)
FillNa(cols) ==
    [k \in DOMAIN cols |->
        [name |-> cols[k].name,
         cells |-> [r \in DOMAIN cols[k].cells |->
                      IF cols[k].cells[r].kind = "nan" THEN Num(0) ELSE cols[k].cells[r]]]]

\* rf_predict.py:456-468: the columns of X before the conversion; `it' is
\* the iteration: its timestamp, the predictions so far, the frame, the
\* statistics and the noise draws
SelectFuture(expected, order, it) ==
    LET cell(name) == FutureCell(name, it.t, it.preds, it.df, it.rows, it.st,
                                 it.zl, it.zr)
    IN
    IF expected # <<>>
    THEN [k \in DOMAIN expected |->
            [name |-> expected[k],
             cells |-> << IF cell(expected[k]).kind = "absent"
                          THEN Num(0) ELSE cell(expected[k]) >>]]
    ELSE LET rest == SelectSeq(order, LAMBDA c : c # TimeCol /\ c # Target)
         IN  [k \in DOMAIN rest |-> [name |-> rest[k], cells |-> <<cell(rest[k])>>]]

\* rf_predict.py:456-493: the matrix predict_future_values hands to
\* scaler.transform
ReconcileFuture(expected, order, it) ==
    ConvertColumns(SelectFuture(expected, order, it))

\* rf_predict.py:70-109: the columns of X before the conversion
SelectExisting(expected, df) ==
    LET order == FrameColumns(df)
        column(name) ==
            [name |-> name,
             cells |-> [r \in DOMAIN df.rows |->
                          IF name \in SeqToSet(order)
                          THEN ExistingCell(name, r, df) ELSE NaN]]
    IN  IF expected # <<>>
        THEN FillNa([k \in DOMAIN expected |-> column(expected[k])])
        ELSE LET rest == SelectSeq(order, LAMBDA c : c # TimeCol /\ c # Target)
             IN  [k \in DOMAIN rest |-> column(rest[k])]

\* rf_predict.py:70-143: the matrix make_predictions hands to scaler.transform
ReconcileExisting(expected, df) == ConvertColumns(SelectExisting(expected, df))

\* X = df[feature_cols] handed on in the order of feature_cols
KeepFeatureCols(expected, feature_cols, df) ==
    [k \in DOMAIN feature_cols |->
        [name |-> feature_cols[k],
         cells |-> [r \in DOMAIN df.rows |-> ExistingCell(feature_cols[k], r, df)]]]

(* v2 predict.py:356-384, predict_with_xgb: X = df[feature_cols], the      *)
(* columns the scaler does not expect removed, the missing ones added      *)
(* with 0, in the scaler's order.  Without feature_names_in_ the expected  *)
(* columns are feature_cols.                                               *)
ReconcileXgb(expected, feature_cols, df) ==
    LET wanted == IF expected # <<>> THEN expected ELSE feature_cols
    IN  [k \in DOMAIN wanted |->
            [name |-> wanted[k],
             cells |-> [r \in DOMAIN df.rows |->
                          IF wanted[k] \in SeqToSet(feature_cols)
                          THEN ExistingCell(wanted[k], r, df) ELSE Num(0)]]]

Names(cols) == [k \in DOMAIN cols |-> cols[k].name]

\* what scaler.transform was handed: by whom, the candidate frame's columns,
\* and the matrix
Matrix(by, frame, cols) == [by |-> by, frame |-> frame, cols |-> cols]
NoMatrix == Matrix("nobody", {}, <<>>)

-----------------------------------------------------------------------------
(* The model and the scaler.  A handle is None (not loaded), "reliable"    *)
(* (its calls never raise on a well-formed matrix) or "faulty" (any call   *)
(* may raise).  model.predict is opaque: it returns any of RawPreds.       *)

Handles == {"reliable", "faulty"}

\* -5.0, 1.5 and 5.0
RawPreds == {0 - 5 * Scale, Scale + Scale \div 2, 5 * Scale}

\* scaler.transform checks the number of columns against the fitted ones
ShapeMismatch(expected, cols) == expected # <<>> /\ Len(cols) # Len(expected)

-----------------------------------------------------------------------------
(* What predict_future_values gave its caller *)

Pending == [kind |-> "pending"]
\* return None, None
ReturnedNone == [kind |-> "None"]
\* return predictions_df, all_predictions
Forecast(times, values) == [kind |-> "forecast", times |-> times, values |-> values]
\* an exception left the function
Raised(e) == [kind |-> "raised", error |-> e]

NoCalls == [transform |-> 0, predict |-> 0]
NoStats == [avg_diff |-> 0, std_diff |-> 0, daily |-> NoPattern, weekly |-> NoPattern]
NoFrame == Frame(FALSE, FALSE, Absent, <<>>)

\* where control goes when predict_future_values ends with r
AfterForecast(r) ==
    IF entry = "main"
    THEN IF r.kind = "raised" THEN "main_except" ELSE "main_save"
    ELSE "done"

\* an iteration that records the adjusted prediction as it is
ClampNothing(pred, rows) == pred

\* rf_predict.py:522-525
Clamp(pred, rows) ==
    LET min_val == Tenths(SeqMin(Values(rows)), ClampLow)
        max_val == Tenths(SeqMax(Values(rows)), ClampHigh)
    IN  Max2(min_val, Min2(max_val, pred))

\* the daily adjustment alone
ApplyDailyOnly(pred, t, st) ==
    IF st.daily.exists
    THEN Mul(pred, Scale + Tenths(Get(st.daily.table, HourOfDay(t)) - Scale,
                                  DailyTenths))
    ELSE pred

\* rf_predict.py:501-512
ApplyPatterns(pred, t, st) ==
    LET p1 == IF st.daily.exists
              THEN Mul(pred, Scale + Tenths(Get(st.daily.table, HourOfDay(t)) - Scale,
                                            DailyTenths))
              ELSE pred
    IN  IF st.weekly.exists
        THEN Mul(p1, Scale + Tenths(Get(st.weekly.table, DayOfWeek(t)) - Scale,
                                    WeeklyTenths))
        ELSE p1

\* rf_predict.py:514-516
Trend(i, st) == Tenths(i * st.avg_diff, TrendTenths)

\* rf_predict.py:499-525: the value an iteration records
StepValue(raw, i, t, st, rows, zf) ==
    Clamp(ApplyPatterns(raw, t, st) + Trend(i, st) + Noise(zf, st.std_diff, NoiseTenths),
          rows)

-----------------------------------------------------------------------------
(* rf_predict.predict_future_values *)

\* lines 316-393: from the call to the first iteration
PredictFutureBegin ==
    /\ pc = "predict_future_values"
    /\ IF model = None \/ scaler = None
       THEN /\ ret' = ReturnedNone
            /\ pc' = AfterForecast(ReturnedNone)
            /\ UNCHANGED << working_df, future_df, stats, engineered, threads >>
       ELSE LET sorted == [historical_df EXCEPT
                             !.rows = IF historical_df.time
                                      THEN SortByTime(historical_df.rows)
                                      ELSE historical_df.rows]
                future == create_future_timepoints(sorted, future_periods)
            IN  IF ~future.ok
                THEN /\ ret' = ReturnedNone
                     /\ pc' = AfterForecast(ReturnedNone)
                     /\ UNCHANGED << working_df, future_df, stats, engineered, threads >>
                ELSE IF AnalysisRaises(sorted)
                THEN /\ ret' = Raised("KeyError")
                     /\ pc' = AfterForecast(Raised("KeyError"))
                     /\ UNCHANGED << working_df, future_df, stats, engineered, threads >>
                ELSE /\ working_df' = sorted
                     /\ future_df' = future.times
                     /\ stats' = PatternStats(sorted.rows)
                     /\ pc' = "stepping"
                     /\ ret' = ret
    /\ all_predictions' = <<>>
    /\ calls' = NoCalls
    /\ UNCHANGED << entry, historical_df, future_periods, model, scaler,
                    expected_features, X, main_state, recon, engineered,
                    threads >>

\* the matrix of iteration Len(all_predictions), with the noise draws zl, zr
StepMatrix(zl, zr) ==
    LET it == [t |-> future_df[Len(all_predictions) + 1],
               preds |-> all_predictions, df |-> working_df,
               rows |-> working_df.rows, st |-> stats, zl |-> zl, zr |-> zr]
    IN  ReconcileFuture(expected_features, FrameColumns(working_df), it)

\* lines 395-422: the lag loop indexes past the start of the history
StepLagError ==
    /\ pc = "stepping"
    /\ Len(all_predictions) < Len(future_df)
    /\ LagRaises(Len(all_predictions), working_df.rows)
    /\ ret' = Raised("IndexError")
    /\ pc' = AfterForecast(Raised("IndexError"))
    /\ UNCHANGED << entry, historical_df, future_periods, model, scaler,
                    expected_features, working_df, future_df, stats,
                    all_predictions, X, calls, main_state, recon,
                    engineered, threads >>

\* lines 395-496: scaler.transform raises
StepTransformError ==
    /\ pc = "stepping"
    /\ Len(all_predictions) < Len(future_df)
    /\ ~LagRaises(Len(all_predictions), working_df.rows)
    /\ \E zl \in DrawsFor(Lag1, expected_features),
          zr \in DrawsFor(RollMean3, expected_features) :
         LET cols == StepMatrix(zl, zr)
         IN  /\ ShapeMismatch(expected_features, cols) \/ scaler = "faulty"
             /\ X' = Matrix("predict_future_values", SeqToSet(FrameColumns(working_df)), cols)
    /\ calls' = [calls EXCEPT !.transform = @ + 1]
    /\ ret' = Raised("ValueError")
    /\ pc' = AfterForecast(Raised("ValueError"))
    /\ UNCHANGED << entry, historical_df, future_periods, model, scaler,
                    expected_features, working_df, future_df, stats,
                    all_predictions, main_state, recon, engineered, threads >>

\* the exception caught in the loop, and what was predicted so far returned
StepPredictErrorPartial ==
    /\ pc = "stepping"
    /\ Len(all_predictions) < Len(future_df)
    /\ ~LagRaises(Len(all_predictions), working_df.rows)
    /\ model = "faulty"
    /\ \E zl \in DrawsFor(Lag1, expected_features),
          zr \in DrawsFor(RollMean3, expected_features) :
         LET cols == StepMatrix(zl, zr)
         IN  /\ ~ShapeMismatch(expected_features, cols)
             /\ X' = Matrix("predict_future_values", SeqToSet(FrameColumns(working_df)), cols)
    /\ calls' = [calls EXCEPT !.transform = @ + 1, !.predict = @ + 1]
    /\ LET partial == Forecast(SubSeq(future_df, 1, Len(all_predictions)), all_predictions)
       IN  ret' = partial /\ pc' = AfterForecast(partial)
    /\ UNCHANGED << entry, historical_df, future_periods, model, scaler,
                    expected_features, working_df, future_df, stats,
                    all_predictions, main_state, recon, engineered, threads >>

\* lines 395-499: model.predict raises
StepPredictError ==
    /\ pc = "stepping"
    /\ Len(all_predictions) < Len(future_df)
    /\ ~LagRaises(Len(all_predictions), working_df.rows)
    /\ model = "faulty"
    /\ \E zl \in DrawsFor(Lag1, expected_features),
          zr \in DrawsFor(RollMean3, expected_features) :
         LET cols == StepMatrix(zl, zr)
         IN  /\ ~ShapeMismatch(expected_features, cols)
             /\ X' = Matrix("predict_future_values", SeqToSet(FrameColumns(working_df)), cols)
    /\ calls' = [calls EXCEPT !.transform = @ + 1, !.predict = @ + 1]
    /\ ret' = Raised("ValueError")
    /\ pc' = AfterForecast(Raised("ValueError"))
    /\ UNCHANGED << entry, historical_df, future_periods, model, scaler,
                    expected_features, working_df, future_df, stats,
                    all_predictions, main_state, recon, engineered, threads >>

\* lines 395-530: an iteration that records its prediction
Step ==
    /\ pc = "stepping"
    /\ Len(all_predictions) < Len(future_df)
    /\ ~LagRaises(Len(all_predictions), working_df.rows)
    /\ \E zl \in DrawsFor(Lag1, expected_features),
          zr \in DrawsFor(RollMean3, expected_features), zf \in Z, raw \in RawPreds :
         LET i == Len(all_predictions)
             cols == StepMatrix(zl, zr)
             pred == StepValue(raw, i, future_df[i + 1], stats, working_df.rows, zf)
         IN  /\ ~ShapeMismatch(expected_features, cols)
             /\ X' = Matrix("predict_future_values", SeqToSet(FrameColumns(working_df)), cols)
             /\ all_predictions' = Append(all_predictions, pred)
    /\ calls' = [calls EXCEPT !.transform = @ + 1, !.predict = @ + 1]
    /\ UNCHANGED << entry, pc, historical_df, future_periods, model, scaler,
                    expected_features, working_df, future_df, stats, ret,
                    main_state, recon, engineered, threads >>

\* lines 532-541: the loop is over
PredictFutureReturn ==
    /\ pc = "stepping"
    /\ Len(all_predictions) = Len(future_df)
    /\ ret' = Forecast(future_df, all_predictions)
    /\ pc' = AfterForecast(Forecast(future_df, all_predictions))
    /\ UNCHANGED << entry, historical_df, future_periods, model, scaler,
                    expected_features, working_df, future_df, stats,
                    all_predictions, X, calls, main_state, recon,
                    engineered, threads >>

-----------------------------------------------------------------------------
(* rf_predict.load_model and rf_predict.main *)

Cpu == "average_usage_cpu"
Memory == "average_usage_memory"

\* the artifact files of a target: each "missing", "reliable" or "faulty"
Artifacts(m, sc) == [model |-> m, scaler |-> sc]

\* the model kept when the scaler fails to load
load_model_half_loaded(target_var, store) ==
    LET kind == IF target_var = Memory THEN "memory"
                ELSE IF target_var = Cpu THEN "cpu" ELSE "unknown"
    IN  IF kind = "unknown" THEN <<None, None>>
        ELSE IF store[kind].model = "missing" THEN <<None, None>>
        ELSE IF store[kind].scaler = "missing" THEN <<store[kind].model, None>>
        ELSE <<store[kind].model, store[kind].scaler>>

\* rf_predict.py:24-46; store maps "cpu" and "memory" to their artifacts
load_model(target_var, store) ==
    LET kind == IF target_var = Memory THEN "memory"
                ELSE IF target_var = Cpu THEN "cpu" ELSE "unknown"
    IN  IF kind = "unknown" THEN <<None, None>>
        ELSE IF store[kind].model = "missing" THEN <<None, None>>
        ELSE IF store[kind].scaler = "missing" THEN <<None, None>>
        ELSE <<store[kind].model, store[kind].scaler>>

NoStore == [k \in {"cpu", "memory"} |-> Artifacts("missing", "missing")]

\* main's state: the frame read from the file, the targets still to process
\* (the first is the current one), the artifact files, the future-prediction
\* files written (target and number of rows), whether the handler of
\* line 638 ran
MainState(df, todo, store, files, error) ==
    [df |-> df, todo |-> todo, store |-> store, files |-> files, error |-> error]

NoMain == MainState(NoFrame, <<>>, NoStore, {}, FALSE)

\* the locals of a finished call of predict_future_values are gone
ForgetCall ==
    /\ working_df' = NoFrame
    /\ future_df' = <<>>
    /\ stats' = NoStats
    /\ all_predictions' = <<>>
    /\ calls' = NoCalls
    /\ ret' = Pending

\* lines 594-605: the next target, its model and its scaler
MainLoad ==
    /\ entry = "main"
    /\ pc = "main_loop"
    /\ main_state.todo # <<>>
    /\ LET pair == load_model(Head(main_state.todo), main_state.store)
       IN  /\ model' = pair[1]
           /\ scaler' = pair[2]
           /\ IF pair[1] = None \/ pair[2] = None
              THEN /\ main_state' = [main_state EXCEPT !.todo = Tail(@)]
                   /\ pc' = "main_loop"
              ELSE /\ main_state' = main_state
                   /\ pc' = "make_predictions"
    /\ UNCHANGED << entry, historical_df, future_periods, expected_features,
                    working_df, future_df, stats, all_predictions, X, calls,
                    ret, recon, engineered, threads >>

\* line 594: no target is left
MainEnd ==
    /\ entry = "main"
    /\ pc = "main_loop"
    /\ main_state.todo = <<>>
    /\ pc' = "done"
    /\ UNCHANGED << entry, historical_df, future_periods, model, scaler,
                    expected_features, working_df, future_df, stats,
                    all_predictions, X, calls, ret, main_state, recon,
                    engineered, threads >>

\* scaler.transform rejects a matrix without rows
EmptyMatrix(df) == df.rows = <<>>

\* lines 607-619 and 635-636: make_predictions on the existing data, then
\* the features of the history
MainMakePredictions ==
    /\ entry = "main"
    /\ pc = "make_predictions"
    /\ LET df == main_state.df
           cols == ReconcileExisting(expected_features, df)
       IN  /\ ~ShapeMismatch(expected_features, cols)
           /\ ~EmptyMatrix(df)
           /\ X' = Matrix("make_predictions", SeqToSet(FrameColumns(df)), cols)
           /\ IF df.time
              THEN /\ historical_df' = [df EXCEPT !.feats = TRUE]
                   /\ pc' = "predict_future_values"
                   /\ main_state' = main_state
              ELSE /\ historical_df' = historical_df
                   /\ pc' = "main_loop"
                   /\ main_state' = [main_state EXCEPT !.todo = Tail(@)]
    /\ UNCHANGED << entry, future_periods, model, scaler, expected_features,
                    working_df, future_df, stats, all_predictions, calls, ret,
                    recon, engineered, threads >>

\* lines 607, 143-146: scaler.transform or model.predict raises in
\* make_predictions
MainMakePredictionsError ==
    /\ entry = "main"
    /\ pc = "make_predictions"
    /\ LET df == main_state.df
           cols == ReconcileExisting(expected_features, df)
       IN  /\ \/ ShapeMismatch(expected_features, cols)
              \/ EmptyMatrix(df)
              \/ scaler = "faulty"
              \/ model = "faulty"
           /\ X' = Matrix("make_predictions", SeqToSet(FrameColumns(df)), cols)
    /\ pc' = "main_except"
    /\ UNCHANGED << entry, historical_df, future_periods, model, scaler,
                    expected_features, working_df, future_df, stats,
                    all_predictions, calls, ret, main_state, recon,
                    engineered, threads >>

\* lines 626-634: the future-prediction file, when there is a forecast
MainSave ==
    /\ entry = "main"
    /\ pc = "main_save"
    /\ main_state' =
         [main_state EXCEPT
            !.todo = Tail(@),
            !.files = IF ret.kind = "forecast"
                      THEN @ \cup {[target |-> Head(main_state.todo),
                                    rows |-> Len(ret.values)]}
                      ELSE @]
    /\ ForgetCall
    /\ pc' = "main_loop"
    /\ UNCHANGED << entry, historical_df, future_periods, model, scaler,
                    expected_features, X, recon, engineered, threads >>

\* lines 638-639: the handler of main ends the script
MainExcept ==
    /\ entry = "main"
    /\ pc = "main_except"
    /\ main_state' = [main_state EXCEPT !.error = TRUE]
    /\ pc' = "done"
    /\ UNCHANGED << entry, historical_df, future_periods, model, scaler,
                    expected_features, working_df, future_df, stats,
                    all_predictions, X, calls, ret, recon, engineered,
                    threads >>

-----------------------------------------------------------------------------
(* v2 future_predict.py: load_model_and_scaler, main, predict_future_values. *)
(* The globals xgb_model and scaler are the variables model and scaler;      *)
(* future_predictions is the variable all_predictions.                       *)

\* DataFrame.drop_duplicates(): the first of equal rows is kept
RECURSIVE DropDuplicates(_)
DropDuplicates(rows) ==
    IF rows = <<>> THEN <<>>
    ELSE LET n == Len(rows)
             before == DropDuplicates(SubSeq(rows, 1, n - 1))
         IN  IF \E k \in 1..(n - 1) : rows[k] = rows[n]
             THEN before ELSE Append(before, rows[n])

\* lines 43-67 and 394-396: the globals are assigned one after the other
V2LoadModelAndScaler ==
    /\ entry = "v2main"
    /\ pc = "v2_main"
    /\ LET files == main_state.store["cpu"]
       IN  IF files.model = "missing"
           THEN /\ UNCHANGED << model, scaler >>
                /\ pc' = "done"
           ELSE IF files.scaler = "missing"
           THEN /\ model' = files.model
                /\ scaler' = scaler
                /\ pc' = "done"
           ELSE /\ model' = files.model
                /\ scaler' = files.scaler
                /\ pc' = "v2_timepoints"
    /\ UNCHANGED << entry, historical_df, future_periods, expected_features,
                    working_df, future_df, stats, all_predictions, X, calls,
                    ret, main_state, recon, engineered, threads >>

\* lines 416-422: create_future_timepoints on the history as it was read
V2CreateTimepoints ==
    /\ entry = "v2main"
    /\ pc = "v2_timepoints"
    /\ LET future == create_future_timepoints(historical_df, future_periods)
       IN  IF future.ok
           THEN future_df' = future.times /\ pc' = "v2_predict_future_values"
           ELSE future_df' = future_df /\ pc' = "done"
    /\ UNCHANGED << entry, historical_df, future_periods, model, scaler,
                    expected_features, working_df, stats, all_predictions, X,
                    calls, ret, main_state, recon, engineered, threads >>

\* lines 196-241: from the call to the first iteration
V2PredictFutureBegin ==
    /\ entry = "v2main"
    /\ pc = "v2_predict_future_values"
    /\ IF model = None \/ scaler = None
       THEN /\ ret' = ReturnedNone
            /\ pc' = "v2_save"
            /\ working_df' = working_df
       ELSE /\ working_df' = [historical_df EXCEPT
                                !.rows = SortByTime(DropDuplicates(historical_df.rows)),
                                !.feats = TRUE]
            /\ pc' = "v2_stepping"
            /\ ret' = ret
    /\ all_predictions' = <<>>
    /\ calls' = NoCalls
    /\ UNCHANGED << entry, historical_df, future_periods, model, scaler,
                    expected_features, future_df, stats, X, main_state, recon,
                    engineered, threads >>

\* lines 230-238: the expected features, all the frame's feature columns
\* when the scaler names none
V2Expected(expected, df) ==
    IF expected # <<>> THEN expected
    ELSE SelectSeq(FrameColumns(df), LAMBDA c : c # TimeCol /\ c # Target)

(* lines 247-265: the cell of column `name' in current_row, the row         *)
(* appended for the timestamp t after rows.  The new row has the time, its *)
(* calendar features and the lag and rolling features recomputed over the  *)
(* frame; every other column of the frame is missing in it.                *)
V2CurrentCell(name, t, rows, df) ==
    CASE name = TimeCol -> DateTime(t)
      [] name = "hour_of_day" -> Num(HourOfDay(t) * Scale)
      [] name = "day_of_week" -> Num(DayOfWeek(t) * Scale)
      [] name = Lag1 -> IF rows = <<>> THEN NaN ELSE Num(rows[Len(rows)].value)
      [] name = RollMean3 ->
            IF rows = <<>> THEN NaN
            ELSE Num(Mean(SubSeq(Values(rows), Max2(1, Len(rows) - 1), Len(rows))))
      [] name = "extra" /\ df.extra.kind # "absent" -> NaN
      [] OTHER -> Absent

(* lines 273-300: the entry of feature_array for a cell: float(value) of a *)
(* number; 0.0 for every string, for a missing value, for a column that is *)
(* not in the row, and for a value float() rejects, as it does a           *)
(* Timestamp.                                                              *)
V2Float(cell) ==
    CASE cell.kind = "num" -> cell.num
      [] cell.kind \in {"numstr", "str"} -> 0
      [] cell.kind = "nan" -> 0
      [] cell.kind \in {"datetime", "object"} -> 0
      [] OTHER -> 0

V2Value(name, t, rows, df) == V2Float(V2CurrentCell(name, t, rows, df))

\* lines 269-300: feature_array
V2FeatureArray(expected, t, rows, df) ==
    LET wanted == V2Expected(expected, df)
    IN  [k \in DOMAIN wanted |->
            [name |-> wanted[k], cells |-> <<Num(V2Value(wanted[k], t, rows, df))>>]]

\* an iteration that writes its prediction over the last row of the frame
V2StepInPlace ==
    /\ entry = "v2main"
    /\ pc = "v2_stepping"
    /\ Len(all_predictions) < Len(future_df)
    /\ \E pred \in RawPreds :
         LET t == future_df[Len(all_predictions) + 1]
         IN  /\ X' = Matrix("v2", SeqToSet(FrameColumns(working_df)),
                            V2FeatureArray(expected_features, t, working_df.rows,
                                           working_df))
             /\ all_predictions' = Append(all_predictions, pred)
             /\ working_df' = [working_df EXCEPT
                                 !.rows[Len(working_df.rows)] =
                                     [time_dt |-> t, value |-> pred]]
    /\ calls' = [calls EXCEPT !.transform = @ + 1, !.predict = @ + 1]
    /\ UNCHANGED << entry, pc, historical_df, future_periods, model, scaler,
                    expected_features, future_df, stats, ret, main_state, recon,
                    engineered, threads >>

\* lines 244-313: an iteration that records its prediction
V2Step ==
    /\ entry = "v2main"
    /\ pc = "v2_stepping"
    /\ Len(all_predictions) < Len(future_df)
    /\ \E pred \in RawPreds :
         LET t == future_df[Len(all_predictions) + 1]
         IN  /\ X' = Matrix("v2", SeqToSet(FrameColumns(working_df)),
                            V2FeatureArray(expected_features, t, working_df.rows,
                                           working_df))
             /\ all_predictions' = Append(all_predictions, pred)
             /\ working_df' = [working_df EXCEPT
                                 !.rows = Append(@, [time_dt |-> t, value |-> pred])]
    /\ calls' = [calls EXCEPT !.transform = @ + 1, !.predict = @ + 1]
    /\ UNCHANGED << entry, pc, historical_df, future_periods, model, scaler,
                    expected_features, future_df, stats, ret, main_state, recon,
                    engineered, threads >>

\* lines 244-306: scaler.transform or xgb_model.predict raises
V2StepError ==
    /\ entry = "v2main"
    /\ pc = "v2_stepping"
    /\ Len(all_predictions) < Len(future_df)
    /\ scaler = "faulty" \/ model = "faulty"
    /\ LET t == future_df[Len(all_predictions) + 1]
       IN  X' = Matrix("v2", SeqToSet(FrameColumns(working_df)),
                       V2FeatureArray(expected_features, t, working_df.rows,
                                      working_df))
    /\ calls' = [calls EXCEPT !.transform = @ + 1]
    /\ ret' = Raised("ValueError")
    /\ pc' = "v2_except"
    /\ UNCHANGED << entry, historical_df, future_periods, model, scaler,
                    expected_features, working_df, future_df, stats,
                    all_predictions, main_state, recon, engineered, threads >>

\* lines 315-319: the loop is over
V2PredictFutureReturn ==
    /\ entry = "v2main"
    /\ pc = "v2_stepping"
    /\ Len(all_predictions) = Len(future_df)
    /\ ret' = Forecast(future_df, all_predictions)
    /\ pc' = "v2_save"
    /\ UNCHANGED << entry, historical_df, future_periods, model, scaler,
                    expected_features, working_df, future_df, stats,
                    all_predictions, X, calls, main_state, recon,
                    engineered, threads >>

\* lines 437-444: the future-prediction file, when there is a forecast
V2Save ==
    /\ entry = "v2main"
    /\ pc = "v2_save"
    /\ main_state' =
         [main_state EXCEPT
            !.files = IF ret.kind = "forecast"
                      THEN @ \cup {[target |-> Cpu, rows |-> Len(ret.values)]}
                      ELSE @]
    /\ pc' = "done"
    /\ UNCHANGED << entry, historical_df, future_periods, model, scaler,
                    expected_features, working_df, future_df, stats,
                    all_predictions, X, calls, ret, recon, engineered,
                    threads >>

\* lines 458-461: the handler of main
V2Except ==
    /\ entry = "v2main"
    /\ pc = "v2_except"
    /\ main_state' = [main_state EXCEPT !.error = TRUE]
    /\ pc' = "done"
    /\ UNCHANGED << entry, historical_df, future_periods, model, scaler,
                    expected_features, working_df, future_df, stats,
                    all_predictions, X, calls, ret, recon, engineered,
                    threads >>

-----------------------------------------------------------------------------
(* v2 predict.py: predict_with_xgb(df, feature_cols); recon holds          *)
(* feature_cols.                                                           *)

\* df[feature_cols] raises a KeyError for a column the frame lacks
XgbKeyError(feature_cols, df) ==
    \E k \in DOMAIN feature_cols : feature_cols[k] \notin SeqToSet(FrameColumns(df))

\* lines 337-349, 397-401: no model, no scaler, or an exception: None
PredictWithXgbNone ==
    /\ entry = "xgb"
    /\ pc = "predict_with_xgb"
    /\ \/ /\ model = None \/ scaler = None \/ XgbKeyError(recon, historical_df)
          /\ X' = X
       \/ /\ model # None /\ scaler # None /\ ~XgbKeyError(recon, historical_df)
          /\ model = "faulty" \/ scaler = "faulty"
          /\ X' = Matrix("predict_with_xgb", SeqToSet(recon),
                         ReconcileXgb(expected_features, recon, historical_df))
    /\ ret' = ReturnedNone
    /\ pc' = "done"
    /\ UNCHANGED << entry, historical_df, future_periods, model, scaler,
                    expected_features, working_df, future_df, stats,
                    all_predictions, calls, main_state, recon, engineered,
                    threads >>

\* lines 337-396: the predictions
PredictWithXgb ==
    /\ entry = "xgb"
    /\ pc = "predict_with_xgb"
    /\ model # None /\ scaler # None /\ ~XgbKeyError(recon, historical_df)
    /\ X' = Matrix("predict_with_xgb", SeqToSet(recon),
                   ReconcileXgb(expected_features, recon, historical_df))
    /\ \E pred \in RawPreds :
         ret' = [kind |-> "predictions",
                 values |-> [r \in DOMAIN historical_df.rows |-> pred]]
    /\ pc' = "done"
    /\ UNCHANGED << entry, historical_df, future_periods, model, scaler,
                    expected_features, working_df, future_df, stats,
                    all_predictions, calls, main_state, recon, engineered,
                    threads >>

-----------------------------------------------------------------------------
(* rf_predict.make_predictions called by itself *)

\* rf_predict.py:48-153: make_predictions(model, scaler, df, target_var)
\* builds the features of df, reconciles them with the scaler's names and
\* returns the predictions of every row
MakePredictions ==
    /\ entry = "make_predictions"
    /\ pc = "make_predictions"
    /\ LET cols == ReconcileExisting(expected_features, historical_df)
       IN  /\ ~ShapeMismatch(expected_features, cols)
           /\ ~EmptyMatrix(historical_df)
           /\ scaler = "reliable" /\ model = "reliable"
           /\ X' = Matrix("make_predictions",
                          SeqToSet(FrameColumns(historical_df)), cols)
    /\ \E pred \in RawPreds :
         ret' = [kind |-> "predictions",
                 values |-> [r \in DOMAIN historical_df.rows |-> pred]]
    /\ pc' = "done"
    /\ UNCHANGED << entry, historical_df, future_periods, model, scaler,
                    expected_features, working_df, future_df, stats,
                    all_predictions, calls, main_state, recon, engineered,
                    threads >>

\* rf_predict.py:143-146: scaler.transform or model.predict raises, and
\* make_predictions catches nothing
MakePredictionsError ==
    /\ entry = "make_predictions"
    /\ pc = "make_predictions"
    /\ LET cols == ReconcileExisting(expected_features, historical_df)
       IN  /\ \/ ShapeMismatch(expected_features, cols)
              \/ EmptyMatrix(historical_df)
              \/ scaler = "faulty"
              \/ model = "faulty"
           /\ X' = Matrix("make_predictions",
                          SeqToSet(FrameColumns(historical_df)), cols)
    /\ ret' = Raised("ValueError")
    /\ pc' = "done"
    /\ UNCHANGED << entry, historical_df, future_periods, model, scaler,
                    expected_features, working_df, future_df, stats,
                    all_predictions, calls, main_state, recon, engineered,
                    threads >>

-----------------------------------------------------------------------------
(* The frames the engineers are called on *)

\* a frame handed to an engineer: whether it has the time column and the
\* target column, and its rows
Batch(time, target, rows) == [time |-> time, target |-> target, rows |-> rows]

\* rows at the given hours after Monday 1970-01-05 00:00, with the values
BatchRows(hours, values) ==
    [i \in DOMAIN hours |-> [time_dt |-> T0 + hours[i], value |-> values[i]]]

\* one row at every hour of a day; two rows of one day part; the four day
\* parts; two nights of a weekend; the same without the time column
TimeBatches ==
    {Batch(t, TRUE, BatchRows(<<h>>, <<Scale>>)) : h \in 0..23, t \in BOOLEAN}
      \cup {Batch(t, TRUE, BatchRows(hs, [i \in DOMAIN hs |-> i * Scale])) :
              hs \in {<<9, 10>>, <<3, 9, 13, 18>>, <<5 * 24 + 22, 6 * 24 + 4>>},
              t \in BOOLEAN}

\* hourly rows with the target values 10, 20, 30, 40; with seven values;
\* with every sequence of one to three values; and the same frames without
\* the target column
ValueBatches ==
    LET hourly(values) == BatchRows([i \in DOMAIN values |-> i - 1], values)
        small == {Scale, 2 * Scale, 4 * Scale}
        sequences ==
            {<<10 * Scale, 20 * Scale, 30 * Scale, 40 * Scale>>,
             <<3 * Scale, Scale, 4 * Scale, Scale, 5 * Scale, 9 * Scale, 2 * Scale>>}
              \cup {<<a>> : a \in small}
              \cup {<<a, b>> : a \in small, b \in small}
              \cup {<<a, b, c>> : a \in small, b \in small, c \in small}
    IN  {Batch(TRUE, g, hourly(values)) : values \in sequences, g \in BOOLEAN}

(* The feature engineers, called by themselves (rf_predict.py:207-291 and  *)
(* future_predict.py:93-170).  An engineer is handed a frame and returns   *)
(* it with the columns it added, or raises.                                *)

Column(name, cells) == [name |-> name, cells |-> cells]

\* the frame returned: the frame given and the columns added to it, in the
\* order of their creation; without added columns it is the frame given
Returned(added) == [kind |-> "frame", added |-> added]

NoEngineer == [by |-> "nobody", df |-> Batch(FALSE, FALSE, <<>>), out |-> Pending]

\* the day parts with their last hour moved into the next part
get_day_part_inclusive(hour) ==
    IF 5 <= hour /\ hour <= 12 THEN "morning"
    ELSE IF 12 <= hour /\ hour <= 17 THEN "afternoon"
    ELSE IF 17 <= hour /\ hour <= 22 THEN "evening"
    ELSE "night"

\* rf_predict.py:230-238
get_day_part(hour) ==
    IF 5 <= hour /\ hour < 12 THEN "morning"
    ELSE IF 12 <= hour /\ hour < 17 THEN "afternoon"
    ELSE IF 17 <= hour /\ hour < 22 THEN "evening"
    ELSE "night"

\* rf_predict.py:244
day_parts == <<"morning", "afternoon", "evening", "night">>

\* .dt.day and .dt.month of a timestamp of January 1970
DayOfMonth(t) == (t \div 24) + 1
Month(t) == 1

\* rf_predict.py:221-227: hour_of_day, day_of_week, day_of_month, month and
\* is_weekend
CalendarColumns(rows) ==
    << Column("hour_of_day", [r \in DOMAIN rows |-> Num(HourOfDay(rows[r].time_dt) * Scale)]),
       Column("day_of_week", [r \in DOMAIN rows |-> Num(DayOfWeek(rows[r].time_dt) * Scale)]),
       Column("day_of_month", [r \in DOMAIN rows |-> Num(DayOfMonth(rows[r].time_dt) * Scale)]),
       Column("month", [r \in DOMAIN rows |-> Num(Month(rows[r].time_dt) * Scale)]),
       Column("is_weekend", [r \in DOMAIN rows |->
                               Num(IF DayOfWeek(rows[r].time_dt) >= 5 THEN Scale ELSE 0)]) >>

\* rf_predict.py:248: (df_new['day_part'] == part).astype(int)
DayPartColumn(part, rows) ==
    Column("day_part_" \o part,
           [r \in DOMAIN rows |->
              Num(IF get_day_part(HourOfDay(rows[r].time_dt)) = part THEN Scale ELSE 0)])

(* rf_predict.py:207-259, create_time_features: the frame as it is without *)
(* the time column; else the calendar columns and one indicator column for *)
(* each of the four day parts.  The cyclical columns (sin and cos of the   *)
(* hour and of the day) follow them and are not followed here.             *)
create_time_features(df) ==
    IF ~df.time THEN Returned(<<>>)
    ELSE Returned(CalendarColumns(df.rows)
                    \o [k \in DOMAIN day_parts |-> DayPartColumn(day_parts[k], df.rows)])

\* the categories of pd.get_dummies are in sorted order
sorted_day_parts == <<"afternoon", "evening", "morning", "night">>

(* future_predict.py:93-137, create_time_features of v2: as in rf_predict, *)
(* but the day parts are encoded by pd.get_dummies (line 129), which makes *)
(* one column for each day part that occurs in the frame.                  *)
v2_create_time_features(df) ==
    IF ~df.time THEN Returned(<<>>)
    ELSE LET occurs(part) ==
                 \E r \in DOMAIN df.rows :
                     get_day_part(HourOfDay(df.rows[r].time_dt)) = part
             present == SelectSeq(sorted_day_parts, occurs)
         IN  Returned(CalendarColumns(df.rows)
                        \o [k \in DOMAIN present |-> DayPartColumn(present[k], df.rows)])

\* rf_predict.py:261 and 274: the default lag periods and windows
lag_periods == <<1, 3, 6, 12, 24>>
windows == <<3, 6, 12, 24>>

\* the value lag rows later instead of lag rows earlier
ShiftAhead(values, lag, t) ==
    IF t + lag <= Len(values) THEN Num(values[t + lag]) ELSE NaN

\* Series.shift(lag) at row t: the value lag rows earlier, missing in the
\* first lag rows
Shift(values, lag, t) ==
    IF t > lag THEN Num(values[t - lag]) ELSE NaN

(* rf_predict.py:261-272 (future_predict.py:139-151 is the same),          *)
(* create_lag_features: df[target] raises KeyError without the target      *)
(* column; else one column target_lag_k = df[target].shift(k) for each k.  *)
create_lag_features(df) ==
    IF ~df.target THEN Raised("KeyError")
    ELSE Returned([k \in DOMAIN lag_periods |->
                     Column("value_lag_" \o ToString(lag_periods[k]),
                            [t \in DOMAIN df.rows |->
                               Shift(Values(df.rows), lag_periods[k], t)])])

\* every row from the first one to row i
WindowFromStart(values, window, i) == SubSeq(values, 1, i)

\* rolling(window, min_periods=1) at row i: the rows of the window that
\* exist, row i the last of them
Window(values, window, i) == SubSeq(values, Max2(1, i - window + 1), i)

\* mean(), std() (ddof = 1: missing for one sample), min() and max() of
\* the samples of a window
RollingStat(stat, s) ==
    CASE stat = "mean" -> Num(Mean(s))
      [] stat = "std" -> IF Len(s) < 2 THEN NaN ELSE Num(Std(s))
      [] stat = "min" -> Num(SeqMin(s))
      [] stat = "max" -> Num(SeqMax(s))

(* rf_predict.py:274-291 (future_predict.py:153-170 is the same),          *)
(* create_rolling_features: df[target] raises KeyError without the target  *)
(* column; else for each window the columns of the rolling mean, std, min  *)
(* and max, in this order.                                                 *)
create_rolling_features(df) ==
    IF ~df.target THEN Raised("KeyError")
    ELSE LET stats_of_window == <<"mean", "std", "min", "max">>
             column(j) ==
                 LET window == windows[((j - 1) \div 4) + 1]
                     stat == stats_of_window[((j - 1) % 4) + 1]
                 IN  Column("value_rolling_" \o stat \o "_" \o ToString(window),
                            [i \in DOMAIN df.rows |->
                               RollingStat(stat, Window(Values(df.rows), window, i))])
         IN  Returned([j \in 1..(4 * Len(windows)) |-> column(j)])

\* rf_predict.py:207: a caller calls create_time_features(df) of rf_predict
CallCreateTimeFeatures ==
    /\ pc = "idle"
    /\ entry' = "engineer"
    /\ pc' = "done"
    /\ \E df \in TimeBatches :
         engineered' = [by |-> "create_time_features", df |-> df,
                        out |-> create_time_features(df)]
    /\ UNCHANGED << historical_df, future_periods, model, scaler,
                    expected_features, working_df, future_df, stats,
                    all_predictions, X, calls, ret, main_state, recon,
                    threads >>

\* future_predict.py:93: a caller calls create_time_features(df) of v2, as
\* the forecaster does on the one new row of a step (line 251)
CallV2CreateTimeFeatures ==
    /\ pc = "idle"
    /\ entry' = "engineer"
    /\ pc' = "done"
    /\ \E df \in TimeBatches :
         engineered' = [by |-> "v2_create_time_features", df |-> df,
                        out |-> v2_create_time_features(df)]
    /\ UNCHANGED << historical_df, future_periods, model, scaler,
                    expected_features, working_df, future_df, stats,
                    all_predictions, X, calls, ret, main_state, recon,
                    threads >>

\* rf_predict.py:261 and future_predict.py:139: a caller calls
\* create_lag_features(df, target)
CallCreateLagFeatures ==
    /\ pc = "idle"
    /\ entry' = "engineer"
    /\ pc' = "done"
    /\ \E df \in ValueBatches, by \in {"create_lag_features", "v2_create_lag_features"} :
         engineered' = [by |-> by, df |-> df, out |-> create_lag_features(df)]
    /\ UNCHANGED << historical_df, future_periods, model, scaler,
                    expected_features, working_df, future_df, stats,
                    all_predictions, X, calls, ret, main_state, recon,
                    threads >>

\* rf_predict.py:274 and future_predict.py:153: a caller calls
\* create_rolling_features(df, target)
CallCreateRollingFeatures ==
    /\ pc = "idle"
    /\ entry' = "engineer"
    /\ pc' = "done"
    /\ \E df \in ValueBatches,
          by \in {"create_rolling_features", "v2_create_rolling_features"} :
         engineered' = [by |-> by, df |-> df, out |-> create_rolling_features(df)]
    /\ UNCHANGED << historical_df, future_periods, model, scaler,
                    expected_features, working_df, future_df, stats,
                    all_predictions, X, calls, ret, main_state, recon,
                    threads >>

-----------------------------------------------------------------------------
(* v2 future_predict used as a module by several threads.  xgb_model and   *)
(* scaler are globals of the module (future_predict.py:39-40): every       *)
(* thread's load assigns them and every thread's forecast reads them.      *)

Threads == {1, 2}

\* the handle that the n-th load of thread t reads from its file
Loaded(t, n) == "load" \o ToString(n) \o "_of_thread" \o ToString(t)

\* a thread: where it is; the files of its load; the globals when its load
\* was called; the globals when its predict_future_values was entered; the
\* scaler its current step transformed with; the <<model, scaler>> each of
\* its steps used; the loads it called
Thread(at, files, before, started, scaled, used, loads) ==
    [pc |-> at, files |-> files, before |-> before, started |-> started,
     scaled |-> scaled, used |-> used, loads |-> loads]

NoThreads ==
    [t \in Threads |->
        Thread("idle", Artifacts("missing", "missing"), <<None, None>>,
               <<None, None>>, None, <<>>, 0)]

\* what a shared action leaves alone
SharedUnchanged ==
    UNCHANGED << entry, pc, historical_df, future_periods, expected_features,
                 working_df, future_df, stats, all_predictions, X, calls, ret,
                 main_state, recon, engineered >>

\* line 42: thread t calls load_model_and_scaler(model_path, scaler_path);
\* each of the two files can be loaded or not
SharedCallLoad(t) ==
    /\ threads[t].pc \in {"idle", "loaded", "load_failed"}
    /\ threads[t].loads < MaxLoads
    /\ \E m \in {"missing", Loaded(t, threads[t].loads + 1)},
          sc \in {"missing", Loaded(t, threads[t].loads + 1)} :
         threads' = [threads EXCEPT
                       ![t].pc = "load_model",
                       ![t].files = Artifacts(m, sc),
                       ![t].before = <<model, scaler>>,
                       ![t].loads = @ + 1]
    /\ UNCHANGED << model, scaler >>
    /\ SharedUnchanged

\* line 46: xgb_model = joblib.load(model_path), or the except branches
\* return False
SharedLoadModel(t) ==
    /\ threads[t].pc = "load_model"
    /\ IF threads[t].files.model = "missing"
       THEN /\ model' = model
            /\ threads' = [threads EXCEPT ![t].pc = "load_failed"]
       ELSE /\ model' = threads[t].files.model
            /\ threads' = [threads EXCEPT ![t].pc = "load_scaler"]
    /\ scaler' = scaler
    /\ SharedUnchanged

\* lines 47-67: scaler = joblib.load(scaler_path) and return True, or the
\* except branches return False
SharedLoadScaler(t) ==
    /\ threads[t].pc = "load_scaler"
    /\ IF threads[t].files.scaler = "missing"
       THEN /\ scaler' = scaler
            /\ threads' = [threads EXCEPT ![t].pc = "load_failed"]
       ELSE /\ scaler' = threads[t].files.scaler
            /\ threads' = [threads EXCEPT ![t].pc = "loaded"]
    /\ model' = model
    /\ SharedUnchanged

\* lines 196-242: thread t calls predict_future_values, which returns None
\* when one of the globals is None
SharedCallPredict(t) ==
    /\ threads[t].pc \in {"loaded", "load_failed"}
    /\ IF model = None \/ scaler = None
       THEN threads' = [threads EXCEPT ![t].pc = "idle"]
       ELSE threads' = [threads EXCEPT ![t].pc = "transform",
                                       ![t].started = <<model, scaler>>,
                                       ![t].used = <<>>]
    /\ UNCHANGED << model, scaler >>
    /\ SharedUnchanged

\* line 303: scaler.transform(feature_array) with the global of the moment
SharedTransform(t) ==
    /\ threads[t].pc = "transform"
    /\ Len(threads[t].used) < MaxHorizon
    /\ threads' = [threads EXCEPT ![t].pc = "predict", ![t].scaled = scaler]
    /\ UNCHANGED << model, scaler >>
    /\ SharedUnchanged

\* line 306: xgb_model.predict(X_scaled) with the global of the moment
SharedPredict(t) ==
    /\ threads[t].pc = "predict"
    /\ threads' = [threads EXCEPT
                     ![t].pc = "transform",
                     ![t].used = Append(@, <<model, threads[t].scaled>>)]
    /\ UNCHANGED << model, scaler >>
    /\ SharedUnchanged

\* lines 315-319: the loop of thread t is over
SharedReturn(t) ==
    /\ threads[t].pc = "transform"
    /\ Len(threads[t].used) = MaxHorizon
    /\ threads' = [threads EXCEPT ![t].pc = "idle"]
    /\ UNCHANGED << model, scaler >>
    /\ SharedUnchanged

-----------------------------------------------------------------------------
(* Inputs *)

FeatureNames == {"hour_of_day", Lag1, "extra", TimeCol, "never_seen"}

\* lists without repetition, <<>> for a scaler without feature_names_in_
ExpectedLists ==
    {<<>>} \cup {<<a>> : a \in FeatureNames}
           \cup {<<p[1], p[2]>> : p \in {q \in FeatureNames \X FeatureNames : q[1] # q[2]}}

ExtraCells == {Absent, Num(Scale), NaN, NumStr(2 * Scale), BadStr, Unconvertible}

\* a week of hourly records but one, and a week: the threshold of the
\* weekly pattern
LongHistories ==
    {HistRows(n, [times |-> "regular", rev |-> FALSE, shape |-> "ramp"]) :
        n \in {WeeklyRows - 1, WeeklyRows}}

Histories == {HistRows(n, p) : n \in HistLens, p \in HistShapes} \cup LongHistories

\* the history of the runs that vary the frame's columns
PlainHistory == HistRows(MaxLag, [times |-> "regular", rev |-> FALSE, shape |-> "osc"])

\* the frame's columns do not matter to the run: any history, any handles
HistoryArguments ==
    {[historical_df |-> Frame(tf[1], tf[2], Absent, rows),
      model |-> h[1], scaler |-> h[2], expected |-> <<"hour_of_day">>] :
        rows \in Histories,
        tf \in {<<FALSE, FALSE>>, <<TRUE, FALSE>>, <<TRUE, TRUE>>},
        h \in {<<None, "reliable">>, <<"reliable", None>>, <<"reliable", "reliable">>,
               <<"faulty", "reliable">>, <<"reliable", "faulty">>}}

\* the history does not matter to the reconciliation: any columns
ColumnArguments ==
    {a \in [historical_df : {Frame(TRUE, TRUE, e, PlainHistory) : e \in ExtraCells},
            model : {"reliable"}, scaler : {"reliable"}, expected : ExpectedLists] :
        \/ \E k \in DOMAIN a.expected : a.expected[k] = "extra"
        \/ a.expected = <<>>
        \/ a.historical_df.extra = Absent}

\* the histories main is run on
MainHistories ==
    {HistRows(n, [times |-> "regular", rev |-> FALSE, shape |-> "osc"]) :
        n \in {0, 1, MaxLag}}

Ready == Artifacts("reliable", "reliable")

MainStores ==
    {[k \in {"cpu", "memory"} |-> IF k = "cpu" THEN c ELSE m] :
        c \in {Ready, Artifacts("missing", "reliable"), Artifacts("reliable", "missing"),
               Artifacts("faulty", "reliable"), Artifacts("reliable", "faulty")},
        m \in {Ready, Artifacts("missing", "reliable")}}

\* the histories the scripts of v2 are run on: short, out of order, with
\* repeated rows
ShortHistories ==
    {HistRows(n, p) : n \in {1, 2, 3},
                      p \in {[times |-> "regular", rev |-> FALSE, shape |-> "ramp"],
                             [times |-> "regular", rev |-> TRUE, shape |-> "ramp"],
                             [times |-> "equal", rev |-> FALSE, shape |-> "flat"]}}

\* the feature_cols predict_with_xgb is called with
FeatureCols ==
    {<<"hour_of_day">>, <<Lag1, "hour_of_day">>, <<"hour_of_day", Lag1>>,
     <<"extra", Lag1>>, <<"never_seen">>}

-----------------------------------------------------------------------------
\* the frames make_predictions is called on by itself
ExistingHistories ==
    {HistRows(n, [times |-> "regular", rev |-> FALSE, shape |-> "ramp"]) : n \in {1, 2, 3}}

\* the names a scaler was fitted on when the frame of features was the
\* whole training matrix: the columns of a frame without time, in any order
WholeFrameLists ==
    {<<p[1], p[2], p[3]>> :
        p \in {q \in {Target, Lag1, RollMean3} \X {Target, Lag1, RollMean3} \X
                     {Target, Lag1, RollMean3} :
                 q[1] # q[2] /\ q[1] # q[3] /\ q[2] # q[3]}}

(* The modules are imported and nothing has been called: the globals of v2 *)
(* are None (future_predict.py:39-40).                                     *)
Init ==
    /\ entry = "nothing"
    /\ pc = "idle"
    /\ historical_df = NoFrame
    /\ future_periods = 1
    /\ model = None
    /\ scaler = None
    /\ expected_features = <<>>
    /\ working_df = NoFrame
    /\ future_df = <<>>
    /\ stats = NoStats
    /\ all_predictions = <<>>
    /\ X = NoMatrix
    /\ calls = NoCalls
    /\ ret = Pending
    /\ main_state = NoMain
    /\ recon = <<>>
    /\ engineered = NoEngineer
    /\ threads = NoThreads

\* rf_predict.py:316: a caller calls predict_future_values(model, scaler,
\* historical_df, future_periods, target_var) with one of arguments
CallWith(arguments) ==
    /\ pc = "idle"
    /\ entry' = "call"
    /\ pc' = "predict_future_values"
    /\ \E a \in arguments :
         /\ historical_df' = a.historical_df
         /\ model' = a.model
         /\ scaler' = a.scaler
         /\ expected_features' = a.expected
    /\ future_periods' \in 1..MaxHorizon
    /\ UNCHANGED << working_df, future_df, stats, all_predictions, X, calls,
                    ret, main_state, recon, engineered, threads >>

CallPredictFutureValues == CallWith(HistoryArguments \cup ColumnArguments)

\* rf_predict.py:569-592: main is run; it read the file and found the
\* targets.  main asks for 24 future periods; the model runs it with the
\* horizons of a bounded run.
RunMain ==
    /\ pc = "idle"
    /\ entry' = "main"
    /\ pc' = "main_loop"
    /\ \E rows \in MainHistories, t \in BOOLEAN, store \in MainStores,
          todo \in {<<>>, <<Cpu>>, <<Cpu, Memory>>} :
         main_state' = MainState(Frame(t, FALSE, Absent, rows), todo, store, {}, FALSE)
    /\ future_periods' \in 1..MaxHorizon
    /\ expected_features' = <<"hour_of_day">>
    /\ UNCHANGED << historical_df, model, scaler, working_df, future_df, stats,
                    all_predictions, X, calls, ret, recon, engineered,
                    threads >>

\* future_predict.py:386-392: main of v2 is run, on the file of an earlier
\* prediction
RunV2Main ==
    /\ pc = "idle"
    /\ entry' = "v2main"
    /\ pc' = "v2_main"
    /\ \E c \in {Ready, Artifacts("missing", "reliable"), Artifacts("reliable", "missing"),
                 Artifacts("faulty", "reliable"), Artifacts("reliable", "faulty")} :
         main_state' = MainState(NoFrame, <<>>,
                                 [k \in {"cpu", "memory"} |-> c], {}, FALSE)
    /\ \E rows \in ShortHistories, t \in BOOLEAN :
         historical_df' = Frame(t, FALSE, Absent, rows)
    /\ future_periods' \in 1..MaxHorizon
    /\ expected_features' \in {<<>>, <<Lag1, "never_seen">>, <<TimeCol, "hour_of_day">>}
    /\ UNCHANGED << model, scaler, working_df, future_df, stats,
                    all_predictions, X, calls, ret, recon, engineered,
                    threads >>

\* predict.py:337: a caller calls predict_with_xgb(df, feature_cols) on a
\* prepared frame
CallPredictWithXgb ==
    /\ pc = "idle"
    /\ entry' = "xgb"
    /\ pc' = "predict_with_xgb"
    /\ \E rows \in ShortHistories, e \in {Absent, Num(Scale)} :
         historical_df' = Frame(TRUE, TRUE, e, rows)
    /\ recon' \in FeatureCols
    /\ \E h \in {<<None, "reliable">>, <<"reliable", None>>, <<"reliable", "reliable">>,
                  <<"faulty", "reliable">>} :
         model' = h[1] /\ scaler' = h[2]
    /\ expected_features' \in ExpectedLists
    /\ UNCHANGED << future_periods, working_df, future_df, stats,
                    all_predictions, X, calls, ret, main_state, engineered,
                    threads >>

\* rf_predict.py:48: a caller calls make_predictions(model, scaler, df,
\* target_var)
CallMakePredictions ==
    /\ pc = "idle"
    /\ entry' = "make_predictions"
    /\ pc' = "make_predictions"
    /\ \E rows \in ExistingHistories, t \in BOOLEAN, e \in ExtraCells :
         historical_df' = Frame(t, FALSE, e, rows)
    /\ \E h \in {<<"reliable", "reliable">>, <<"faulty", "reliable">>,
                  <<"reliable", "faulty">>} :
         model' = h[1] /\ scaler' = h[2]
    /\ expected_features' \in ExpectedLists \cup WholeFrameLists
    /\ UNCHANGED << future_periods, working_df, future_df, stats,
                    all_predictions, X, calls, ret, main_state, recon,
                    engineered, threads >>

Next ==
    \/ CallPredictFutureValues
    \/ RunMain
    \/ RunV2Main
    \/ CallPredictWithXgb
    \/ CallMakePredictions
    \/ CallCreateTimeFeatures
    \/ CallV2CreateTimeFeatures
    \/ CallCreateLagFeatures
    \/ CallCreateRollingFeatures
    \/ PredictFutureBegin
    \/ StepLagError
    \/ StepTransformError
    \/ StepPredictError
    \/ Step
    \/ PredictFutureReturn
    \/ MainLoad
    \/ MainEnd
    \/ MainMakePredictions
    \/ MainMakePredictionsError
    \/ MainSave
    \/ MainExcept
    \/ V2LoadModelAndScaler
    \/ V2CreateTimepoints
    \/ V2PredictFutureBegin
    \/ V2Step
    \/ V2StepError
    \/ V2PredictFutureReturn
    \/ V2Save
    \/ V2Except
    \/ PredictWithXgbNone
    \/ PredictWithXgb
    \/ MakePredictions
    \/ MakePredictionsError

Spec == Init /\ [][Next]_vars

(* A call of rf_predict.predict_future_values alone, on every history.     *)
(* Python runs a loop it has entered: an iteration that can be taken is    *)
(* taken, and nothing but the loop's own end or an exception stops it.     *)
CallOnHistories == CallWith(HistoryArguments)

ForecastLoop ==
    \/ Step
    \/ StepLagError
    \/ StepTransformError
    \/ StepPredictError
    \/ PredictFutureReturn

ForecastNext ==
    \/ CallOnHistories
    \/ PredictFutureBegin
    \/ ForecastLoop

FairSpec == Init /\ [][ForecastNext]_vars /\ WF_vars(ForecastLoop)

(* The module of v2 future_predict imported once and used by the threads   *)
(* of one process, each loading its pair and forecasting.                  *)
SharedNext ==
    \E t \in Threads :
        \/ SharedCallLoad(t)
        \/ SharedLoadModel(t)
        \/ SharedLoadScaler(t)
        \/ SharedCallPredict(t)
        \/ SharedTransform(t)
        \/ SharedPredict(t)
        \/ SharedReturn(t)

SharedSpec == Init /\ [][SharedNext]_vars

-----------------------------------------------------------------------------
(* Properties of rf_predict.predict_future_values *)

\* the runs of rf_predict
RfRun == entry \in {"call", "main"}

\* the bounds of the clamp, from the historical rows only
HistoricalFloor == (8 * SeqMin(Values(historical_df.rows))) \div 10
HistoricalCeiling == (12 * SeqMax(Values(historical_df.rows))) \div 10

RecordedWithinBounds ==
    \A k \in DOMAIN all_predictions :
        /\ HistoricalFloor <= all_predictions[k]
        /\ all_predictions[k] <= HistoricalCeiling

(* C1, as stated: for every history and every noise draw, every value a    *)
(* step records lies in [0.8 x min, 1.2 x max] of the historical target.   *)
C1_EveryHistoryClamped == RfRun => RecordedWithinBounds

(* C1, amended: for every history whose bounds are in order, 0.8 x min <=  *)
(* 1.2 x max (every history without negative targets is one), and every    *)
(* noise draw, every value a step records lies in [0.8 x min, 1.2 x max]   *)
(* of the historical target.                                               *)
C1_ClampInvariant ==
    (RfRun /\ all_predictions # <<>> /\ HistoricalFloor <= HistoricalCeiling)
        => RecordedWithinBounds

\* a run whose first step was cut down to the ceiling and whose second was
\* raised to the floor
C1_Witness ==
    /\ RfRun
    /\ Len(all_predictions) >= 2
    /\ HistoricalFloor < HistoricalCeiling
    /\ all_predictions[1] = HistoricalCeiling
    /\ all_predictions[2] = HistoricalFloor

\* the stepping loop of rf_predict.predict_future_values is running
RfStepping == RfRun /\ pc = "stepping"

\* a completed run: horizon iterations, horizon pairs
CompletedHasHorizonPairs ==
    (RfRun /\ ret.kind = "forecast") =>
        /\ future_periods >= 1
        /\ calls.predict = future_periods
        /\ Len(ret.times) = future_periods
        /\ Len(ret.values) = future_periods

\* an iteration adds one value after those of the earlier iterations, and
\* the values are returned as they were recorded, with the timestamps
OnePairPerStepInOrder ==
    /\ (RfStepping /\ pc' = "stepping") =>
          /\ calls'.predict = calls.predict + 1
          /\ all_predictions' = Append(all_predictions, all_predictions'[Len(all_predictions')])
    /\ (RfStepping /\ ret'.kind = "forecast") =>
          /\ ret'.values = all_predictions
          /\ ret'.times = future_df
          /\ Len(all_predictions) = calls.predict

(* C2: for every horizon >= 1, a run of rf_predict.predict_future_values   *)
(* that completes has executed its stepping loop exactly horizon times and *)
(* returns exactly horizon (timestamp, value) pairs, one per step, in step *)
(* order; the stepping loop always terminates.                             *)
C2_HorizonSteps ==
    /\ []CompletedHasHorizonPairs
    /\ [][OnePairPerStepInOrder]_vars
    /\ RfStepping ~> ~RfStepping

\* a run that completed after more than one iteration
C2_Witness ==
    /\ RfRun
    /\ ret.kind = "forecast"
    /\ future_periods >= 2
    /\ Len(ret.values) = future_periods
    /\ calls.predict = future_periods


\* the timestamps of the history as the caller gave it are in time order
TimeOrdered(rows) ==
    \A k \in 1..(Len(rows) - 1) : rows[k].time_dt < rows[k + 1].time_dt

\* a call with a history that is sufficient and handles that never throw
SufficientHistory ==
    /\ entry = "call"
    /\ pc # "idle"
    /\ historical_df.time
    /\ Len(historical_df.rows) >= 2
    /\ TimeOrdered(historical_df.rows)
    /\ future_periods >= 1
    /\ model = "reliable"
    /\ scaler = "reliable"

(* C3, as stated: a forecast run fails only for insufficient history: for  *)
(* every history that has the time column and at least 2 time-ordered     *)
(* records, every horizon >= 1, and a scaler and model that never throw,   *)
(* rf_predict.predict_future_values returns a forecast instead of failing: *)
(* no exception of its own leaves it.                                      *)
C3_FailsOnlyForInsufficientHistory ==
    SufficientHistory =>
        ~(ret.kind = "raised" /\ ret.error \in {"IndexError", "KeyError"})

\* the set of the historical timestamps
HistoricalTimes == {historical_df.rows[k].time_dt : k \in DOMAIN historical_df.rows}

LastHistoricalTime == CHOOSE t \in HistoricalTimes : \A u \in HistoricalTimes : u <= t
FirstHistoricalTime == CHOOSE t \in HistoricalTimes : \A u \in HistoricalTimes : t <= u

\* the mean of the consecutive differences of the sorted timestamps: they
\* add up to the last minus the first
AverageInterval ==
    (LastHistoricalTime - FirstHistoricalTime) \div (Len(historical_df.rows) - 1)

\* consecutive hours, one row each
HourlyHistory ==
    /\ HistoricalTimes = FirstHistoricalTime..LastHistoricalTime
    /\ Cardinality(HistoricalTimes) = Len(historical_df.rows)

(* C4: the k-th timestamp emitted by a run (k = 1..horizon) equals the     *)
(* last historical timestamp + k x average interval, the average interval  *)
(* being the mean of the consecutive timestamp differences of the          *)
(* time-sorted history; consecutive emitted timestamps differ by exactly   *)
(* that interval, 1 hour for an hourly history.                            *)
C4_KthTimestamp ==
    (RfRun /\ ret.kind = "forecast") =>
        /\ \A k \in DOMAIN ret.times :
              ret.times[k] = LastHistoricalTime + k * AverageInterval
        /\ \A k \in 1..(Len(ret.times) - 1) :
              ret.times[k + 1] - ret.times[k] = AverageInterval
        /\ HourlyHistory =>
              /\ ret.times[1] = LastHistoricalTime + 1
              /\ \A k \in 1..(Len(ret.times) - 1) : ret.times[k + 1] = ret.times[k] + 1

\* a completed run on a history that came out of order and is not hourly
C4_Witness ==
    /\ RfRun
    /\ ret.kind = "forecast"
    /\ Len(ret.times) >= 2
    /\ ~TimeOrdered(historical_df.rows)
    /\ ~HourlyHistory
    /\ ret.times[2] - ret.times[1] > 1
    /\ ret.times[1] > LastHistoricalTime

(* C5, as stated: for every history with at least 2 records and every      *)
(* horizon >= 1, the timestamps of a completed run of                      *)
(* rf_predict.predict_future_values are strictly increasing, and the first *)
(* one is strictly later than the last historical timestamp.               *)
C5_StrictlyIncreasing ==
    (RfRun /\ ret.kind = "forecast" /\ Len(historical_df.rows) >= 2) =>
        /\ ret.times[1] > LastHistoricalTime
        /\ \A k \in 1..(Len(ret.times) - 1) : ret.times[k] < ret.times[k + 1]

\* a history the forecaster cannot start from
Insufficient(df) == Len(df.rows) < 2 \/ ~df.time

\* predict_future_values has made no call and has returned nothing but None
NothingButNone ==
    /\ calls = NoCalls
    /\ all_predictions = <<>>
    /\ ret.kind \in {"pending", "None"}

(* C6: when the history has fewer than 2 rows or lacks the time column,    *)
(* rf_predict.predict_future_values returns no forecast (None, None)       *)
(* without ever calling scaler.transform or model.predict, and main writes *)
(* no future-prediction file for that target.                              *)
C6_InsufficientHistory ==
    /\ (entry = "call" /\ Insufficient(historical_df)) =>
          /\ NothingButNone
          /\ pc = "done" => ret = ReturnedNone
    /\ (entry = "main" /\ Insufficient(main_state.df)) =>
          /\ NothingButNone
          /\ pc = "main_save" => ret = ReturnedNone
          /\ main_state.files = {}

\* main got None from predict_future_values, called with a loaded model and
\* scaler on a history of one row
C6_Witness ==
    /\ entry = "main"
    /\ pc = "main_save"
    /\ Len(main_state.df.rows) = 1
    /\ main_state.df.time
    /\ model = "reliable"
    /\ scaler = "reliable"
    /\ ret = ReturnedNone
    /\ calls = NoCalls

\* the artifact files of a target do not both load
LoadFails(target_var) ==
    LET files == main_state.store[IF target_var = Memory THEN "memory" ELSE "cpu"]
    IN  files.model = "missing" \/ files.scaler = "missing"

\* predict_future_values is before its first iteration, or not running
NoStepTaken ==
    /\ pc # "stepping"
    /\ calls = NoCalls
    /\ all_predictions = <<>>
    /\ ret.kind \in {"pending", "None"}

(* C7: if loading the model or the scaler fails, no forecast step is ever  *)
(* executed for that target: rf_predict.load_model returns (None, None)    *)
(* and never a half-loaded pair, main skips the target, and                *)
(* predict_future_values called with a missing model or scaler returns     *)
(* before its first step.                                                  *)
C7_LoadFailure ==
    /\ entry = "main" =>
          /\ \A t \in {Cpu, Memory} :
                LoadFails(t) => load_model(t, main_state.store) = <<None, None>>
          /\ (model = None) <=> (scaler = None)
          /\ (main_state.todo # <<>> /\ LoadFails(Head(main_state.todo))) =>
                /\ pc \in {"main_loop", "done"}
                /\ NoStepTaken
          /\ \A f \in main_state.files : ~LoadFails(f.target)
    /\ (entry = "call" /\ (model = None \/ scaler = None)) =>
          /\ NoStepTaken
          /\ pc = "done" => ret = ReturnedNone

\* main has skipped the first target, whose scaler did not load, and is at
\* the second
C7_Witness ==
    /\ entry = "main"
    /\ pc = "main_loop"
    /\ main_state.todo = <<Memory>>
    /\ main_state.store["cpu"].model = "reliable"
    /\ main_state.store["cpu"].scaler = "missing"
    /\ model = None
    /\ scaler = None
    /\ main_state.files = {}
    /\ ~main_state.error

\* the future-prediction files written for the target main is at
FilesOfCurrentTarget ==
    {f \in main_state.files :
        main_state.todo # <<>> /\ f.target = Head(main_state.todo)}

(* C8: if scaler.transform or model.predict throws at any step i           *)
(* (1 <= i <= horizon), the run emits no forecast at all: none of the      *)
(* (timestamp, value) pairs of steps 1..i-1 is returned by                 *)
(* predict_future_values or written to the future-prediction file; a run   *)
(* either yields all horizon pairs or none.  In rf_predict and in v2       *)
(* future_predict.                                                         *)
C8_AllOrNothing ==
    (RfRun \/ entry = "v2main") =>
        /\ ret.kind \in {"pending", "None", "raised", "forecast"}
        /\ ret.kind = "forecast" =>
              /\ Len(ret.times) = future_periods
              /\ Len(ret.values) = future_periods
        /\ \A f \in main_state.files : f.rows = future_periods
        /\ ret.kind = "raised" =>
              /\ DOMAIN ret = {"kind", "error"}
              /\ entry = "main" => FilesOfCurrentTarget = {}
              /\ entry = "v2main" => main_state.files = {}

\* main of rf_predict has ended on an exception of a step after the first:
\* a value had been recorded, nothing was returned, no file was written
C8_Witness ==
    /\ entry = "main"
    /\ pc = "done"
    /\ main_state.error
    /\ ret.kind = "raised"
    /\ calls.transform >= 2
    /\ Len(all_predictions) >= 1
    /\ main_state.files = {}

ZeroColumn(name) ==
    \E j \in DOMAIN X.cols :
        /\ X.cols[j].name = name
        /\ \A r \in DOMAIN X.cols[j].cells : X.cols[j].cells[r] = Num(0)

(* C10, the reconciler fill law: for every expected-feature list and every *)
(* input frame from which one expected name is absent, the reconciled      *)
(* matrix contains that column and every entry of it is 0; in              *)
(* make_predictions and predict_future_values of rf_predict and in         *)
(* predict_with_xgb of v2 predict.                                         *)
C10_FillLaw ==
    X.by \in {"make_predictions", "predict_future_values", "predict_with_xgb"} =>
        \A k \in DOMAIN expected_features :
            expected_features[k] \notin X.frame => ZeroColumn(expected_features[k])

\* a step of predict_future_values reconciled a frame that lacks the second
\* of two expected names: the column is there with 0, after a column of the
\* frame that is not 0
C10_Witness ==
    /\ X.by = "predict_future_values"
    /\ expected_features = <<Lag1, "never_seen">>
    /\ "never_seen" \notin X.frame
    /\ Lag1 \in X.frame
    /\ Names(X.cols) = expected_features
    /\ X.cols[2].cells = <<Num(0)>>
    /\ X.cols[1].cells # <<Num(0)>>

\* the frame the reconciler was given has exactly the expected columns
ExactlyExpected ==
    /\ entry \in {"make_predictions", "xgb"}
    /\ X.by \in {"make_predictions", "predict_with_xgb"}
    /\ expected_features # <<>>
    /\ X.frame = SeqToSet(expected_features)

(* C11 as stated, the reconciler round trip: for every expected-feature    *)
(* list F and every input frame whose columns are exactly F in any order,  *)
(* the reconciled matrix has the columns of F in F's order and every value *)
(* is identical to the input value of the same-named column.               *)
C11_RoundTrip ==
    ExactlyExpected =>
        /\ Names(X.cols) = expected_features
        /\ \A k \in DOMAIN X.cols : \A r \in DOMAIN historical_df.rows :
               X.cols[k].cells[r] = ExistingCell(X.cols[k].name, r, historical_df)

(* C11 amended: under the same condition the reconciled matrix has the     *)
(* columns of F in F's order, and every value that is a number in the      *)
(* input is identical in the matrix; a missing value of the input is 0 in  *)
(* the matrix of make_predictions.                                         *)
C11_RoundTripOfNumbers ==
    ExactlyExpected =>
        /\ Names(X.cols) = expected_features
        /\ \A k \in DOMAIN X.cols : \A r \in DOMAIN historical_df.rows :
               LET given == ExistingCell(X.cols[k].name, r, historical_df)
               IN  /\ given.kind = "num" => X.cols[k].cells[r] = given
                   /\ (given.kind = "nan" /\ X.by = "make_predictions") =>
                          X.cols[k].cells[r] = Num(0)

\* predict_with_xgb was given the two expected columns in the other order,
\* on three rows: the matrix has them in the scaler's order, with the lag of
\* the second row in it
C11_Witness ==
    /\ entry = "xgb"
    /\ X.by = "predict_with_xgb"
    /\ recon = <<Lag1, "hour_of_day">>
    /\ expected_features = <<"hour_of_day", Lag1>>
    /\ X.frame = {Lag1, "hour_of_day"}
    /\ Len(historical_df.rows) = 3
    /\ Names(X.cols) = expected_features
    /\ X.cols[2].cells[2] = Num(historical_df.rows[1].value)

(* C12: at every step of the recursive forecaster the feature matrix       *)
(* passed to scaler.transform contains no missing (NaN) entry: an expected *)
(* feature whose value is missing in the step's row is 0 in the matrix.    *)
C12_NoMissingEntry ==
    X.by \in {"predict_future_values", "v2"} =>
        \A k \in DOMAIN X.cols : \A r \in DOMAIN X.cols[k].cells :
            X.cols[k].cells[r].kind # "nan"

\* the column called name holds v in the one row of a step's matrix
StepEntry(name, v) ==
    \A k \in DOMAIN X.cols : X.cols[k].name = name => X.cols[k].cells = <<Num(v)>>

\* cells holds the timestamp of one of the steps of the run, in seconds
SecondsOfAStep(cells) ==
    \E k \in DOMAIN future_df : cells = <<Num(future_df[k] * SecondsPerHour * Scale)>>

(* C13: in both recursive forecasters, rf_predict and v2 future_predict, a *)
(* non-numeric value of an expected feature is coerced before scaling: a   *)
(* datetime becomes its seconds since epoch, a numeric-like string the     *)
(* number it spells, and a value that cannot be coerced 0.                 *)
C13_Coercion ==
    (X.by \in {"predict_future_values", "v2"} /\ expected_features # <<>>) =>
        /\ \A k \in DOMAIN X.cols :
               X.cols[k].name = TimeCol =>
                   SecondsOfAStep(X.cols[k].cells)
        /\ working_df.extra.kind = "numstr" => StepEntry("extra", working_df.extra.num)
        /\ working_df.extra.kind = "str" => StepEntry("extra", 0)

(* C14: a feature mismatch (missing or extra columns) or a value whose     *)
(* numeric conversion fails never aborts a forecast run: the affected      *)
(* entry is zero-filled, the step produces a prediction and the run goes   *)
(* on.  Stated for the runs of rf_predict.predict_future_values on 24      *)
(* hourly rows with a model and a scaler that do not raise on a matrix of  *)
(* the fitted shape, whatever the covariate column and the expected names. *)
C14_MismatchNeverAborts ==
    (/\ entry = "call"
     /\ model = "reliable"
     /\ scaler = "reliable"
     /\ historical_df.rows = PlainHistory
     /\ historical_df.feats)
        => /\ ret.kind # "raised"
           /\ (/\ X.by = "predict_future_values"
               /\ historical_df.extra.kind = "object"
               /\ "extra" \in SeqToSet(expected_features)) => ZeroColumn("extra")

\* create_time_features of rf_predict was called on a frame with the time
\* column
TimeFeaturesOf(by) ==
    /\ engineered.by = by
    /\ engineered.df.time

\* the cells of the added column called name; <<>> when it was not added
AddedCells(name) ==
    LET added == engineered.out.added
    IN  IF \E k \in DOMAIN added : added[k].name = name
        THEN added[CHOOSE k \in DOMAIN added : added[k].name = name].cells
        ELSE <<>>

\* the day part the claim gives to an hour of the day
DayPartOfHour(h) ==
    IF h \in 5..11 THEN "morning"
    ELSE IF h \in 12..16 THEN "afternoon"
    ELSE IF h \in 17..21 THEN "evening"
    ELSE "night"

(* C15: for every hour 0..23, create_time_features of rf_predict sets      *)
(* exactly one of the four day-part indicators to 1 and the other three to *)
(* 0, with morning = hours 5-11, afternoon = 12-16, evening = 17-21 and    *)
(* night = 22-4.                                                           *)
C15_OneDayPart ==
    TimeFeaturesOf("create_time_features") =>
        \A r \in DOMAIN engineered.df.rows :
            \A part \in {"morning", "afternoon", "evening", "night"} :
                /\ Len(AddedCells("day_part_" \o part)) = Len(engineered.df.rows)
                /\ AddedCells("day_part_" \o part)[r] =
                       IF DayPartOfHour(engineered.df.rows[r].time_dt % 24) = part
                       THEN Num(Scale) ELSE Num(0)

\* the engineer was called on the row of hour 3, which gives night, and on
\* the row of hour 9, which gives morning
C15_Witness ==
    /\ TimeFeaturesOf("create_time_features")
    /\ Len(engineered.df.rows) = 4
    /\ engineered.df.rows[1].time_dt % 24 = 3
    /\ engineered.df.rows[2].time_dt % 24 = 9
    /\ AddedCells("day_part_night") = <<Num(Scale), Num(0), Num(0), Num(0)>>
    /\ AddedCells("day_part_morning") = <<Num(0), Num(Scale), Num(0), Num(0)>>
    /\ AddedCells("day_part_afternoon") = <<Num(0), Num(0), Num(Scale), Num(0)>>
    /\ AddedCells("day_part_evening") = <<Num(0), Num(0), Num(0), Num(Scale)>>

(* C16: for every batch with a time column, a single-row batch and a batch *)
(* whose hours all fall into one day part included, create_time_features   *)
(* of rf_predict and of v2 future_predict each emit all four columns       *)
(* day_part_morning, day_part_afternoon, day_part_evening, day_part_night. *)
C16_AllFourColumns ==
    (TimeFeaturesOf("create_time_features") \/ TimeFeaturesOf("v2_create_time_features")) =>
        \A part \in {"morning", "afternoon", "evening", "night"} :
            \E k \in DOMAIN engineered.out.added :
                engineered.out.added[k].name = "day_part_" \o part

\* create_rolling_features was called on a frame with the target column
RollingFeaturesCalled ==
    /\ engineered.by \in {"create_rolling_features", "v2_create_rolling_features"}
    /\ engineered.df.target

\* the target values of the frame the engineer was given
TargetValues == [i \in DOMAIN engineered.df.rows |-> engineered.df.rows[i].value]

(* C17: for every target sequence and window w, the rolling mean that      *)
(* create_rolling_features writes at row i (counted from 0) is the mean of *)
(* rows max(0, i-w+1)..i, that is of min(w, i+1) values; for window 3 over *)
(* 10, 20, 30, 40 it is 10, 15, 20, 30.  Rows are counted from 1 here.     *)
C17_RollingMean ==
    RollingFeaturesCalled =>
        /\ \A w \in {3, 6, 12, 24} : \A i \in DOMAIN TargetValues :
               LET first == IF i - w + 1 >= 1 THEN i - w + 1 ELSE 1
                   count == IF w <= i THEN w ELSE i
                   total == SumSeq([j \in 1..count |-> TargetValues[first + j - 1]])
                   cells == AddedCells("value_rolling_mean_" \o ToString(w))
               IN  /\ Len(cells) = Len(TargetValues)
                   /\ cells[i] = Num(total \div count)
        /\ TargetValues = <<10 * Scale, 20 * Scale, 30 * Scale, 40 * Scale>> =>
               AddedCells("value_rolling_mean_3") =
                   <<Num(10 * Scale), Num(15 * Scale), Num(20 * Scale), Num(30 * Scale)>>

\* the engineer was called on 10, 20, 30, 40 and wrote 10, 15, 20, 30 as
\* the rolling mean of window 3
C17_Witness ==
    /\ RollingFeaturesCalled
    /\ engineered.by = "create_rolling_features"
    /\ TargetValues = <<10 * Scale, 20 * Scale, 30 * Scale, 40 * Scale>>
    /\ AddedCells("value_rolling_mean_3") =
           <<Num(10 * Scale), Num(15 * Scale), Num(20 * Scale), Num(30 * Scale)>>
    /\ AddedCells("value_rolling_mean_6")[4] = Num(25 * Scale)

(* C18: for every row (the first one included), every window and each of   *)
(* the four statistics mean, std, min and max, create_rolling_features of  *)
(* rf_predict and of v2 future_predict produces a defined value computed   *)
(* from the min(w, i+1) available samples, never a missing value, when the *)
(* target values of those rows are present.                                *)
C18_NoMissingStatistic ==
    RollingFeaturesCalled =>
        \A w \in {3, 6, 12, 24} : \A stat \in {"mean", "std", "min", "max"} :
            LET cells == AddedCells("value_rolling_" \o stat \o "_" \o ToString(w))
            IN  /\ Len(cells) = Len(TargetValues)
                /\ \A i \in DOMAIN cells : cells[i].kind = "num"

\* create_lag_features was called on a frame with the target column
LagFeaturesCalled ==
    /\ engineered.by \in {"create_lag_features", "v2_create_lag_features"}
    /\ engineered.df.target

\* what the engineer that was called gives for the first t rows alone
OnFirstRows(t) ==
    LET df == Batch(engineered.df.time, engineered.df.target,
                    SubSeq(engineered.df.rows, 1, t))
    IN  IF LagFeaturesCalled THEN create_lag_features(df)
        ELSE create_rolling_features(df)

(* C19: create_lag_features sets value_lag_k at row t (counted from 0) to  *)
(* target[t-k] for every t >= k and leaves it missing for the first k      *)
(* rows; the lag and rolling features of row t are functions of rows 0..t  *)
(* only: they are what the engineer gives for the frame cut after row t.   *)
C19_LagAndNoLookahead ==
    /\ LagFeaturesCalled =>
           \A k \in {1, 3, 6, 12, 24} :
               LET cells == AddedCells("value_lag_" \o ToString(k))
               IN  /\ Len(cells) = Len(TargetValues)
                   /\ \A t \in DOMAIN cells :
                          cells[t] = IF t - 1 >= k THEN Num(TargetValues[t - k]) ELSE NaN
    /\ (LagFeaturesCalled \/ RollingFeaturesCalled) =>
           \A t \in DOMAIN engineered.df.rows :
               \A j \in DOMAIN engineered.out.added :
                   /\ OnFirstRows(t).added[j].name = engineered.out.added[j].name
                   /\ OnFirstRows(t).added[j].cells[t] = engineered.out.added[j].cells[t]

\* the engineer was called on seven rows: the lag of 6 is missing in the
\* first six rows and the first value in the seventh, and the rows that
\* follow the second one do not show in its lag of 1
C19_Witness ==
    /\ LagFeaturesCalled
    /\ Len(TargetValues) = 7
    /\ AddedCells("value_lag_6") = <<NaN, NaN, NaN, NaN, NaN, NaN, Num(TargetValues[1])>>
    /\ AddedCells("value_lag_1")[2] = Num(TargetValues[1])
    /\ OnFirstRows(2).added[1].cells = <<NaN, Num(TargetValues[1])>>
    /\ TargetValues[3] # TargetValues[1]

\* an engineer was called on a frame without the column it reads
SourceColumnAbsent ==
    \/ /\ engineered.by \in {"create_time_features"}
       /\ ~engineered.df.time
    \/ /\ engineered.by \in {"create_lag_features", "create_rolling_features"}
       /\ ~engineered.df.target

(* C20: each feature engineer of rf_predict (create_time_features,         *)
(* create_lag_features, create_rolling_features), called on a frame that   *)
(* lacks its source column (the time column, respectively the target       *)
(* column), returns the data unmodified instead of raising.                *)
C20_PassThrough ==
    SourceColumnAbsent => engineered.out = Returned(<<>>)

\* the value the n-th iteration recorded is what the code records for a
\* raw prediction of the model and a noise draw when trend is the trend term
RecordedWithTrend(n, trend) ==
    \E raw \in RawPreds, zf \in Z :
        all_predictions[n] =
            Clamp(ApplyPatterns(raw, future_df[n], stats) + trend
                    + Noise(zf, stats.std_diff, NoiseTenths),
                  working_df.rows)

(* C21: at iteration i of the stepping loop (i = 1..horizon, iteration i   *)
(* being the one whose timestamp is the last historical timestamp + i x    *)
(* average interval), the trend term added to the prediction is exactly    *)
(* i x (mean of the first differences of the historical target) x 0.3.     *)
(* Stated for the histories of more than 24 rows, the ones whose first     *)
(* differences the code analyses.                                          *)
C21_TrendTerm ==
    (RfStepping /\ Len(working_df.rows) > PatternRows) =>
        \A i \in DOMAIN all_predictions :
            RecordedWithTrend(i, (3 * i * Mean(Diffs(Values(working_df.rows)))) \div 10)

(* C22: in rf_predict.main a failure while processing one target variable  *)
(* (its model or scaler cannot be loaded, or its prediction raises) does    *)
(* not prevent the remaining target variables from being processed: when   *)
(* main ends, no target is left but the one whose prediction raised.       *)
C22_ContinueOnError ==
    (entry = "main" /\ pc = "done") =>
        Len(main_state.todo) <= (IF main_state.error THEN 1 ELSE 0)

-----------------------------------------------------------------------------
(* Properties of the module of v2 future_predict shared by threads *)

\* thread t is in the loop of predict_future_values
InLoop(t) == threads[t].pc \in {"transform", "predict"}

\* the last load of thread t returned True
LoadSucceeded(t) ==
    /\ threads[t].files.model # "missing"
    /\ threads[t].files.scaler # "missing"

\* the pair a successful load of thread t assigned
OwnPair(t) ==
    \E n \in 1..threads[t].loads :
        threads[t].started = <<Loaded(t, n), Loaded(t, n)>>

(* C23: when several forecast runs execute concurrently, interleaved with  *)
(* model loads made for other runs, every step of a run uses the           *)
(* model/scaler pair that run started with, the pair is never modified     *)
(* after load, and no run observes a pair loaded for another run.          *)
C23_OwnPairAtEveryStep ==
    \A t \in Threads :
        (InLoop(t) /\ LoadSucceeded(t)) =>
            /\ OwnPair(t)
            /\ \A k \in DOMAIN threads[t].used : threads[t].used[k] = threads[t].started

\* no other thread than t has called anything
AloneSoFar(t) == \A u \in Threads \ {t} : threads[u].loads = 0

(* C30: after load_model_and_scaler of v2 future_predict returns False,    *)
(* the global model/scaler state is the same as before the call: it never  *)
(* holds a newly loaded model next to an older or a missing scaler, so a   *)
(* later predict_future_values cannot run with a pair that was not loaded  *)
(* together.  Stated for a thread that is alone in using the module.       *)
C30_FailedLoadChangesNothing ==
    \A t \in Threads :
        AloneSoFar(t) =>
            /\ threads[t].pc = "load_failed" => <<model, scaler>> = threads[t].before
            /\ InLoop(t) => threads[t].started[1] = threads[t].started[2]

-----------------------------------------------------------------------------
(* Properties of the forecaster of v2 future_predict *)

\* the forecaster of v2 is in its loop
V2Stepping == entry = "v2main" /\ pc = "v2_stepping"

\* the rows of the working history that came from the history
V2HistoricalRows ==
    SubSeq(working_df.rows, 1, Len(working_df.rows) - Len(all_predictions))

(* C24: in the forecaster of v2 future_predict (main calling               *)
(* create_future_timepoints and then predict_future_values), for any input *)
(* history the working history is, at every step, free of exact-duplicate  *)
(* historical rows and ordered by non-decreasing timestamp, the appended   *)
(* future rows included.                                                   *)
C24_WorkingHistoryOrdered ==
    V2Stepping =>
        /\ \A j \in DOMAIN V2HistoricalRows : \A k \in DOMAIN V2HistoricalRows :
               V2HistoricalRows[j] = V2HistoricalRows[k] => j = k
        /\ \A k \in 1..(Len(working_df.rows) - 1) :
               working_df.rows[k].time_dt <= working_df.rows[k + 1].time_dt


\* the working history after Warmup: the copy without repeated rows, sorted
PostWarmup == SortByTime(DropDuplicates(historical_df.rows))

\* one step of the loop of v2 predict_future_values has recorded a prediction
V2Recorded == V2Stepping /\ Len(all_predictions') = Len(all_predictions) + 1

\* predict_future_values, of rf_predict or of v2, has been called and has
\* not returned
InForecast ==
    pc \in {"predict_future_values", "stepping", "v2_predict_future_values",
            "v2_stepping"}

-----------------------------------------------------------------------------
(* Properties of the steps of rf_predict.predict_future_values *)

\* pred * (1 + (factor - 1) * tenths / 10), the factor read in table
Adjusted(pred, table, key, tenths) ==
    Mul(pred, Scale + Tenths(Get(table, key) - Scale, tenths))

\* the prediction of step n after the adjustments whose table exists, the
\* tables being those of the history
AfterAdjustments(raw, n) ==
    LET t == future_df[n]
        rows == working_df.rows
        hourly == IF stats.daily.exists
                  THEN Adjusted(raw, PatternNorm(rows, "hour_of_day"), HourOfDay(t),
                                DailyTenths)
                  ELSE raw
    IN  IF stats.weekly.exists
        THEN Adjusted(hourly, PatternNorm(rows, "day_of_week"), DayOfWeek(t),
                      WeeklyTenths)
        ELSE hourly

RecordedWithAdjustments(n) ==
    \E raw \in RawPreds, zf \in Z :
        all_predictions[n] =
            Clamp(AfterAdjustments(raw, n) + Trend(n - 1, stats)
                    + Noise(zf, stats.std_diff, NoiseTenths),
                  working_df.rows)

(* C26: at every step of rf predict_future_values the hourly and the weekly *)
(* adjustment are each applied iff their pattern table exists; the weekly   *)
(* table exists iff the history has at least 7 * 24 = 168 rows; the tables  *)
(* are those computed from the history before the first step, and no step   *)
(* changes them.                                                            *)
C26_PatternsFrozen ==
    /\ [](RfStepping =>
            /\ stats.weekly.exists <=> Len(working_df.rows) >= 7 * 24
            /\ stats.daily.exists => stats.daily.table = PatternNorm(working_df.rows, "hour_of_day")
            /\ stats.weekly.exists => stats.weekly.table = PatternNorm(working_df.rows, "day_of_week")
            /\ \A n \in DOMAIN all_predictions : RecordedWithAdjustments(n))
    /\ [][RfStepping => stats' = stats]_vars

\* a step on a week of history, on a day whose weekly factor is not 1
C26_Witness ==
    /\ RfStepping
    /\ Len(working_df.rows) = 7 * 24
    /\ stats.weekly.exists /\ stats.daily.exists
    /\ Len(all_predictions) >= 1
    /\ Get(stats.weekly.table, DayOfWeek(future_df[1])) # Scale
    /\ Get(stats.daily.table, HourOfDay(future_df[1])) # Scale


\* the sequence history ++ recorded predictions
Joined == Values(working_df.rows) \o all_predictions

\* the matrix of the step that recorded prediction n holds, in the lag-1
\* column, the value v and a noise of std_diff * 0.3
Lag1EntryOfStep(v) ==
    \E zl \in Z : StepEntry(Lag1, v + Noise(zl, stats.std_diff, 3))

(* C27: at step i of rf predict_future_values (i-1 predictions recorded),   *)
(* the value lag k is built from, noise aside, is the element k positions   *)
(* before the current step in history ++ recorded predictions: the          *)
(* prediction of step i-k when k <= i-1, otherwise the historical record    *)
(* k-(i-1) positions from the end of the history; lag 1 of step i+1 is the  *)
(* output recorded at step i.                                               *)
C27_LagSource ==
    RfStepping =>
        /\ \A k \in 1..MaxLag :
              k <= Len(Joined) =>
                 /\ LagBase(k, all_predictions, working_df.rows) = Joined[Len(Joined) + 1 - k]
                 /\ k <= Len(all_predictions) =>
                      LagBase(k, all_predictions, working_df.rows) =
                          all_predictions[Len(all_predictions) + 1 - k]
                 /\ k > Len(all_predictions) =>
                      LagBase(k, all_predictions, working_df.rows) =
                          working_df.rows[Len(working_df.rows) + 1
                                            - (k - Len(all_predictions))].value
        /\ (X.by = "predict_future_values" /\ Len(all_predictions) >= 2) =>
              Lag1EntryOfStep(all_predictions[Len(all_predictions) - 1])
        /\ (X.by = "predict_future_values" /\ Len(all_predictions) = 1) =>
              Lag1EntryOfStep(working_df.rows[Len(working_df.rows)].value)

\* the second step was handed, as lag 1, the output of the first, which is
\* not the last historical value
C27_Witness ==
    /\ RfStepping
    /\ X.by = "predict_future_values"
    /\ Len(all_predictions) = 2
    /\ \E k \in DOMAIN X.cols : X.cols[k].name = Lag1
    /\ all_predictions[1] # working_df.rows[Len(working_df.rows)].value
    /\ Lag1EntryOfStep(all_predictions[1])
    /\ ~Lag1EntryOfStep(working_df.rows[Len(working_df.rows)].value)


\* the last min(w, available) values of history ++ recorded predictions,
\* the most recent first
LastOfJoined(w) ==
    [j \in 1..Min2(w, Len(Joined)) |-> Joined[Len(Joined) + 1 - j]]

\* a step is about to compute its lag and rolling columns
RfStepAhead ==
    /\ RfStepping
    /\ Len(all_predictions) < Len(future_df)
    /\ ~LagRaises(Len(all_predictions), working_df.rows)

(* C28: at each step of rf predict_future_values the rolling statistics of  *)
(* window w are computed, noise aside, over the last min(w, available)      *)
(* values of history ++ recorded predictions: every value of that range,    *)
(* the oldest historical record included, and nothing else.                 *)
C28_RollingRange ==
    RfStepAhead =>
        \A w \in {3, 6, 12, 24} :
            RollValues(w, all_predictions, working_df.rows) = LastOfJoined(w)


\* the run is on a history of at most 24 rows
ShortHistory == RfStepping /\ Len(working_df.rows) <= 24

\* prediction n is a raw prediction with no adjustment and no trend, and a
\* noise of 0.01 * 0.7, clamped
RecordedWithFixedNoise(n) ==
    \E raw \in RawPreds, zf \in Z :
        all_predictions[n] = Clamp(raw + zf * (((Scale \div 100) * 7) \div 10),
                                   working_df.rows)

\* the lag-1 entry of the last step's matrix: its value and a noise of
\* 0.01 * 0.3
Lag1WithFixedNoise ==
    LET n == Len(all_predictions)
        base == IF n >= 2 THEN all_predictions[n - 1]
                ELSE working_df.rows[Len(working_df.rows)].value
    IN  \E zl \in Z : StepEntry(Lag1, base + zl * (((Scale \div 100) * 3) \div 10))

(* C29: when the history passed to rf predict_future_values has at most 24 *)
(* rows, whatever its values, no hourly or weekly adjustment is applied,   *)
(* the trend term is 0 at every step, and every noise term is scaled by    *)
(* the fixed deviation 0.01, not by the deviation of the historical first  *)
(* differences.                                                            *)
C29_ShortHistoryDefaults ==
    ShortHistory =>
        /\ ~stats.daily.exists /\ ~stats.weekly.exists
        /\ stats.avg_diff = 0
        /\ stats.std_diff = Scale \div 100
        /\ \A n \in DOMAIN all_predictions :
              /\ Trend(n - 1, stats) = 0
              /\ RecordedWithFixedNoise(n)
        /\ (X.by = "predict_future_values" /\ Len(all_predictions) >= 1) =>
              Lag1WithFixedNoise

\* a step on 24 rows whose first differences deviate by much more than
\* 0.01 and have a mean that is not 0, with a noise that shows
C29_Witness ==
    /\ ShortHistory
    /\ Len(working_df.rows) = 24
    /\ Std(Diffs(Values(working_df.rows))) > 10 * (Scale \div 100)
    /\ Mean(Diffs(Values(working_df.rows))) # 0
    /\ Len(all_predictions) >= 1
    /\ X.by = "predict_future_values"
    /\ \E k \in DOMAIN X.cols : X.cols[k].name = Lag1
    /\ RecordedWithFixedNoise(1)
    /\ all_predictions[1] \notin RawPreds
    /\ ~StepEntry(Lag1, working_df.rows[Len(working_df.rows)].value)

====
